---------------------------- MODULE Spec2Model ----------------------------
(***************************************************************************)
(* A model of the TourPlan recommender: the location index                 *)
(* (TourPlan_Recommender/data_preprocessor.py), the scoring engine         *)
(* (TourPlan_Recommender/Models.py), the itinerary assembler               *)
(* (TourPlan_Recommender/itinerary.py), the candidate generators          *)
(* (TourPlan_Recommender/Candidates.py) and the ingestion of the POI       *)
(* catalog (TourPlan_Recommender/ingest.py).                               *)
(*                                                                         *)
(* Python strings are TLA+ strings; Python's None and SQL's NULL are the   *)
(* value None below, which no catalog text equals.  Python lists are       *)
(* sequences, dicts are functions whose DOMAIN is the set of keys present. *)
(***************************************************************************)
EXTENDS Integers, Sequences, FiniteSets, TLC

VARIABLES
    \* ---- location index (the module-level POIDataPreprocessor instance)
    rows,                   \* the rows of the pois table, in the query's ORDER BY
    all_pois,               \* preprocessor.all_pois
    city_country_lookup,    \* preprocessor.city_country_lookup
    city_lookup,            \* preprocessor.city_lookup
    country_lookup,         \* preprocessor.country_lookup
    available_locations,    \* preprocessor.available_locations
    is_loaded,              \* preprocessor.is_loaded
    loads,                  \* number of load_all_data() calls that returned True
    call,                   \* the last call on the index and what it returned
    \* ---- scoring engine (Models.py): one call of a pure function
    sc_in,                  \* the function called and its arguments
    sc_out,                 \* what it returned, or Pending
    \* ---- itinerary assembler (itinerary.py)
    data_initialized,       \* build_itinerary._data_initialized is set
    it_in,                  \* the arguments of the build_itinerary requests
    it_out,                 \* what the last build_itinerary call did, or Pending
    \* ---- candidate generators (Candidates.py)
    model,                  \* the module-level embedding model, or None
    poi_embeddings,         \* the rows of the poi_embeddings table (lang 'en')
    gen_in,                 \* the generator called and its arguments
    gen_out,                \* what it returned or that it raised, or Pending
    \* ---- ingestion (ingest.py)
    pois_table,             \* the rows of the pois table: id and external_id
    poi_texts_table,        \* the rows of the poi_texts table: poi_id and lang
    ing_call                \* the last ingest_data run, or NoCall

idxVars == <<rows, all_pois, city_country_lookup, city_lookup, country_lookup,
             available_locations, is_loaded, loads, call>>

scVars == <<sc_in, sc_out>>

itVars == <<data_initialized, it_in, it_out>>

genVars == <<model, poi_embeddings, gen_in, gen_out>>

ingVars == <<pois_table, poi_texts_table, ing_call>>

vars == <<idxVars, scVars, itVars, genVars, ingVars>>

None == "<None>"

(***************************************************************************)
(* Strings: str.lower(), str.strip() and the substring test `a in b`.      *)
(***************************************************************************)
LowerChar(c) ==
    CASE c = "A" -> "a" [] c = "B" -> "b" [] c = "C" -> "c" [] c = "D" -> "d"
      [] c = "E" -> "e" [] c = "F" -> "f" [] c = "G" -> "g" [] c = "H" -> "h"
      [] c = "I" -> "i" [] c = "J" -> "j" [] c = "K" -> "k" [] c = "L" -> "l"
      [] c = "M" -> "m" [] c = "N" -> "n" [] c = "O" -> "o" [] c = "P" -> "p"
      [] c = "Q" -> "q" [] c = "R" -> "r" [] c = "S" -> "s" [] c = "T" -> "t"
      [] c = "U" -> "u" [] c = "V" -> "v" [] c = "W" -> "w" [] c = "X" -> "x"
      [] c = "Y" -> "y" [] c = "Z" -> "z" [] OTHER -> c

RECURSIVE Lower(_)
Lower(s) ==
    IF Len(s) = 0 THEN ""
    ELSE LowerChar(SubSeq(s, 1, 1)) \o Lower(SubSeq(s, 2, Len(s)))

RECURSIVE Strip(_)
Strip(s) ==
    IF Len(s) = 0 THEN ""
    ELSE IF SubSeq(s, 1, 1) = " " THEN Strip(SubSeq(s, 2, Len(s)))
    ELSE IF SubSeq(s, Len(s), Len(s)) = " " THEN Strip(SubSeq(s, 1, Len(s) - 1))
    ELSE s

\* Python's `needle in hay` on two strings
StrIn(needle, hay) ==
    \E i \in 1..(Len(hay) - Len(needle) + 1) :
        SubSeq(hay, i, i + Len(needle) - 1) = needle

\* Python's truth value of an optional string: None and "" are false
Truthy(s) == s # None /\ s # ""

(***************************************************************************)
(* Sequences.                                                              *)
(***************************************************************************)
Range(s) == {s[i] : i \in DOMAIN s}

\* the list a Python comprehension builds: [i \in 1..n |-> e] with every
\* element evaluated once
List(f) == f \o <<>>

Take(s, n) == SubSeq(s, 1, IF n < Len(s) THEN n ELSE Len(s))

\* list.append on a defaultdict(list) entry
AppendAt(map, key, v) ==
    IF key \in DOMAIN map
    THEN [map EXCEPT ![key] = Append(@, v)]
    ELSE map @@ (key :> <<v>>)

\* lexicographic order on equally long tuples of integers (Python's tuple <)
RECURSIVE LexLess(_, _)
LexLess(a, b) ==
    IF a = <<>> \/ b = <<>> THEN FALSE
    ELSE IF Head(a) # Head(b) THEN Head(a) < Head(b)
    ELSE LexLess(Tail(a), Tail(b))

\* the place list.sort gives index i of n: behind every index with a smaller
\* key and every earlier index with an equal key (the sort is stable)
SortRank(i, n, keys) ==
    1 + Cardinality({j \in 1..n : \/ LexLess(keys[j], keys[i])
                                  \/ (j < i /\ ~LexLess(keys[i], keys[j]))})

StableOrderTo(n, keys) ==
    LET rank == List([i \in 1..n |-> SortRank(i, n, keys)])
    IN  List([k \in 1..n |-> CHOOSE i \in 1..n : rank[i] = k])

\* list.sort(key=...) / sorted(key=...): s ordered by ascending keys[i], equal
\* keys in the order of s.  reverse=True keeps equal keys in the order of s
\* too, so it is the ascending sort on the negated keys.
SortByKeys(s, keys) ==
    LET ks == List(keys)
        ord == StableOrderTo(Len(s), ks)
    IN  List([k \in 1..Len(s) |-> s[ord[k]]])

(***************************************************************************)
(* The catalog: the rows of                                                *)
(*   SELECT p.id, pt.name, p.type, pt.description, p.city_name,            *)
(*          p.country_name ... ORDER BY p.city_name, p.country_name, p.id  *)
(* A catalog is any sub-list of CatalogRows, which is in that order (NULL  *)
(* first, then byte order).                                                *)
(***************************************************************************)
Row(id, name, type, desc, city, country) ==
    [id |-> id, name |-> name, type |-> type, description |-> desc,
     city_name |-> city, country_name |-> country]

CatalogRows ==
    << Row(5, "Lost Inn", "hotel", None, None, "Egypt"),
       Row(6, None, None, None, " cairo", "EGYPT"),
       Row(1, "Nile Hotel", "hotel", "river view", "Cairo", "Egypt"),
       Row(3, "Souq", "market", "", "Cairo", "Sudan"),
       Row(4, "Mall", "mall", "shops", "New Cairo", "Egypt") >>

RECURSIVE PickRows(_, _)
PickRows(i, S) ==
    IF i > Len(CatalogRows) THEN <<>>
    ELSE (IF i \in S THEN <<CatalogRows[i]>> ELSE <<>>) \o PickRows(i + 1, S)

Catalogs == {PickRows(1, S) : S \in SUBSET (1..Len(CatalogRows))}

\* the query strings of a lookup; None is an argument left at its default
QueryCities == {"Cairo", " CAIRO ", "air", "", None}
QueryCountries == {"Egypt", "sudan", "Peru", ""}

\* the partial texts of a suggestion lookup
PartialCities == {"", "cai", "zz"}
PartialCountries == {"", "Sud"}

\* the number of successful loads the model follows
MaxLoads == 2

(***************************************************************************)
(* POIDataPreprocessor.load_all_data                                       *)
(***************************************************************************)
OrElse(v, dflt) == IF Truthy(v) THEN v ELSE dflt

\* poi_data of one row (lines 56-65)
PoiData(row) ==
    [poi_id |-> row.id,
     name |-> OrElse(row.name, "Unknown"),
     type |-> OrElse(row.type, "other"),
     description |-> OrElse(row.description, ""),
     city |-> Strip(row.city_name),
     country |-> Strip(row.country_name),
     city_lower |-> Strip(Lower(row.city_name)),
     country_lower |-> Strip(Lower(row.country_name))]

\* the loop over the rows (lines 52-76); st holds all_pois and the three maps
RECURSIVE LoadRowsInto(_, _)
LoadRowsInto(st, rs) ==
    IF rs = <<>> THEN st
    ELSE LET row == Head(rs)
         IN  IF ~Truthy(row.city_name) \/ ~Truthy(row.country_name)
             THEN LoadRowsInto(st, Tail(rs))
             ELSE LET poi == PoiData(row)
                      city_key == Strip(Lower(row.city_name))
                      country_key == Strip(Lower(row.country_name))
                  IN  LoadRowsInto(
                        [all |-> Append(st.all, poi),
                         cc |-> AppendAt(st.cc, <<city_key, country_key>>, poi),
                         ci |-> AppendAt(st.ci, city_key, poi),
                         co |-> AppendAt(st.co, country_key, poi)],
                        Tail(rs))

\* location_counts (lines 79-82): a dict, so in order of first insertion
RECURSIVE LocationCounts(_, _)
LocationCounts(acc, pois) ==
    IF pois = <<>> THEN acc
    ELSE LET key == <<Head(pois).city, Head(pois).country>>
             at == {i \in DOMAIN acc : <<acc[i][1], acc[i][2]>> = key}
         IN  LocationCounts(
               IF at = {} THEN Append(acc, <<key[1], key[2], 1>>)
               ELSE List([i \in DOMAIN acc |->
                             IF i \in at THEN <<acc[i][1], acc[i][2], acc[i][3] + 1>>
                             ELSE acc[i]]),
               Tail(pois))

\* available_locations (lines 84-88): sorted by count, reverse=True
AvailableLocationsOf(pois) ==
    LET counts == LocationCounts(<<>>, pois)
    IN  SortByKeys(counts, [i \in DOMAIN counts |-> <<0 - counts[i][3]>>])

\* The lists load_all_data leaves on index ix when the query returned `rs`
\* (non-empty): all_pois is reset (line 51), the three maps are not.
LoadedState(ix, rs) ==
    LoadRowsInto([all |-> <<>>, cc |-> ix.cc, ci |-> ix.ci, co |-> ix.co], rs)

\* load_all_data (lines 28-102) on index ix: the index it leaves, with what
\* it returns in `ok`.  db_ok = FALSE: sqlite3 raises (no file, no table),
\* caught at line 100.
LoadAllData(ix, db_ok) ==
    IF ~db_ok \/ rows = <<>>
    THEN [ix EXCEPT !.ok = FALSE]
    ELSE LET st == LoadedState(ix, rows)
         IN  [ok |-> TRUE, all |-> st.all, cc |-> st.cc, ci |-> st.ci,
              co |-> st.co, avail |-> AvailableLocationsOf(st.all),
              loaded |-> TRUE]

\* the index as it stands
CurrentIndex ==
    [ok |-> TRUE, all |-> all_pois, cc |-> city_country_lookup,
     ci |-> city_lookup, co |-> country_lookup,
     avail |-> available_locations, loaded |-> is_loaded]

SetIndex(ix) ==
    /\ all_pois' = ix.all
    /\ city_country_lookup' = ix.cc
    /\ city_lookup' = ix.ci
    /\ country_lookup' = ix.co
    /\ available_locations' = ix.avail
    /\ is_loaded' = ix.loaded

(***************************************************************************)
(* POIDataPreprocessor.find_pois_for_location, lines 111-152: the stages   *)
(* on a loaded index ix, for query strings that are not None.              *)
(***************************************************************************)
FuzzyMatch(poi, city_clean, country_clean) ==
    \/ StrIn(city_clean, poi.city_lower) \/ StrIn(poi.city_lower, city_clean)
    \/ StrIn(country_clean, poi.country_lower)
    \/ StrIn(poi.country_lower, country_clean)

\* FindStage trying the city-only key before the exact key
FindStageCityFirst(ix, city, country) ==
    LET city_clean == Strip(Lower(city))
        country_clean == Strip(Lower(country))
        exact_key == <<city_clean, country_clean>>
    IN  IF city_clean \in DOMAIN ix.ci THEN [stage |-> "city", pois |-> ix.ci[city_clean]]
        ELSE IF exact_key \in DOMAIN ix.cc
             THEN [stage |-> "exact", pois |-> ix.cc[exact_key]]
        ELSE [stage |-> "none", pois |-> <<>>]

FindStage(ix, city, country) ==
    LET city_clean == Strip(Lower(city))
        country_clean == Strip(Lower(country))
        exact_key == <<city_clean, country_clean>>
        Fuzzy(poi) == FuzzyMatch(poi, city_clean, country_clean)
        fuzzy_matches == SelectSeq(ix.all, Fuzzy)
    IN  IF exact_key \in DOMAIN ix.cc THEN [stage |-> "exact", pois |-> ix.cc[exact_key]]
        ELSE IF city_clean \in DOMAIN ix.ci THEN [stage |-> "city", pois |-> ix.ci[city_clean]]
        ELSE IF country_clean \in DOMAIN ix.co
             THEN [stage |-> "country", pois |-> ix.co[country_clean]]
        ELSE IF fuzzy_matches # <<>> THEN [stage |-> "fuzzy", pois |-> fuzzy_matches]
        ELSE [stage |-> "none", pois |-> <<>>]

\* find_pois_for_location (lines 104-152) on index ix0: the index it leaves
\* (it loads an unloaded index first) and its outcome: a list, or the AttributeError of
\* None.lower() at line 111 or 112.
FindPoisForLocation(ix0, city, country, db_ok) ==
    LET ix == IF ix0.loaded THEN ix0 ELSE LoadAllData(ix0, db_ok)
    IN  IF ~ix0.loaded /\ ~ix.ok
        THEN [ix |-> ix, raised |-> FALSE, stage |-> "not loaded", pois |-> <<>>]
        ELSE IF city = None \/ country = None
        THEN [ix |-> ix, raised |-> TRUE, stage |-> "raised", pois |-> <<>>]
        ELSE LET r == FindStage(ix, city, country)
             IN  [ix |-> ix, raised |-> FALSE, stage |-> r.stage, pois |-> r.pois]

(***************************************************************************)
(* POIDataPreprocessor.get_location_suggestions, lines 158-171             *)
(***************************************************************************)
SuggestionLimit == 20

SuggestionMatch(loc, partial_city, partial_country) ==
    LET partial_city_lower == Lower(partial_city)
        partial_country_lower == Lower(partial_country)
        city_match == partial_city_lower = "" \/ StrIn(partial_city_lower, Lower(loc[1]))
        country_match ==
            partial_country_lower = "" \/ StrIn(partial_country_lower, Lower(loc[2]))
    IN  city_match \/ country_match

GetLocationSuggestions(partial_city, partial_country) ==
    LET Match(loc) == SuggestionMatch(loc, partial_city, partial_country)
    IN  Take(SelectSeq(available_locations, Match), SuggestionLimit)

(***************************************************************************)
(* The calls on the index.                                                 *)
(***************************************************************************)
NoCall == [op |-> "none"]

\* initialize_data() (lines 176-178), as GET /locations and the first
\* build_itinerary call it
InitializeData ==
    \E db_ok \in BOOLEAN :
        \E r \in {LoadAllData(CurrentIndex, db_ok)} :
            /\ r.ok => loads < MaxLoads
            /\ SetIndex(r)
            /\ loads' = IF r.ok THEN loads + 1 ELSE loads
            /\ call' = [op |-> "initialize_data", ok |-> r.ok]
            /\ UNCHANGED <<rows, scVars, itVars, genVars, ingVars>>

\* get_pois_for_location(city, country) (lines 180-182)
GetPoisForLocation ==
    \E city \in QueryCities, country \in QueryCountries,
       db_ok \in IF is_loaded THEN {TRUE} ELSE BOOLEAN :
        \E r \in {FindPoisForLocation(CurrentIndex, city, country, db_ok)} :
            /\ SetIndex(r.ix)
            /\ loads' = IF ~is_loaded /\ r.ix.ok THEN loads + 1 ELSE loads
            /\ call' = [op |-> "get_pois_for_location", city |-> city,
                        country |-> country, raised |-> r.raised,
                        stage |-> r.stage, pois |-> r.pois]
            /\ UNCHANGED <<rows, scVars, itVars, genVars, ingVars>>

\* get_location_suggestions(partial_city, partial_country) (lines 188-190)
GetSuggestions ==
    \E partial_city \in PartialCities, partial_country \in PartialCountries :
        /\ call' = [op |-> "get_location_suggestions",
                    partial_city |-> partial_city,
                    partial_country |-> partial_country,
                    result |-> GetLocationSuggestions(partial_city, partial_country)]
        /\ UNCHANGED <<rows, all_pois, city_country_lookup, city_lookup,
                       country_lookup, available_locations, is_loaded, loads, scVars, itVars, genVars, ingVars>>

\* get_available_locations() (lines 154-156, 184-186)
GetAvailableLocations ==
    /\ call' = [op |-> "get_available_locations", result |-> available_locations]
    /\ UNCHANGED <<rows, all_pois, city_country_lookup, city_lookup,
                   country_lookup, available_locations, is_loaded, loads, scVars, itVars, genVars, ingVars>>

\* POIDataPreprocessor.__init__ (lines 20-26)
NewIndex ==
    /\ all_pois = <<>>
    /\ city_country_lookup = <<>>
    /\ city_lookup = <<>>
    /\ country_lookup = <<>>
    /\ available_locations = <<>>
    /\ is_loaded = FALSE
    /\ loads = 0
    /\ call = NoCall

\* no call of the scoring engine is under way
ScoreIdle == sc_in = NoCall /\ sc_out = NoCall

\* no build_itinerary request is under way
ItinIdle == data_initialized = FALSE /\ it_in = NoCall /\ it_out = NoCall

\* no generator of Candidates.py is called
GenIdle == model = None /\ poi_embeddings = <<>> /\ gen_in = NoCall /\ gen_out = NoCall

\* empty tables, and no ingest_data run
IngestIdle == pois_table = <<>> /\ poi_texts_table = <<>> /\ ing_call = NoCall

\* a fresh index over any catalog
InitIndex ==
    rows \in Catalogs /\ NewIndex /\ ScoreIdle /\ ItinIdle /\ GenIdle /\ IngestIdle

NextIndex ==
    \/ InitializeData
    \/ GetPoisForLocation
    \/ GetSuggestions
    \/ GetAvailableLocations

SpecIndex == InitIndex /\ [][NextIndex]_vars

(***************************************************************************)
(* Claims about the location index (checked under SpecIndex).              *)
(***************************************************************************)
\* the index one load_all_data() builds from the catalog, starting empty
SingleLoad ==
    LET st == LoadRowsInto([all |-> <<>>, cc |-> <<>>, ci |-> <<>>, co |-> <<>>], rows)
    IN  [ok |-> TRUE, all |-> st.all, cc |-> st.cc, ci |-> st.ci, co |-> st.co,
         avail |-> AvailableLocationsOf(st.all), loaded |-> TRUE]

Answered == call.op = "get_pois_for_location" /\ ~call.raised /\ is_loaded

\* C2: re-initialisation is idempotent: after any number (>= 1) of successful
\* loads over an unchanged catalog the three lookup maps hold each POI once
\* per key, and a lookup returns the same list as after a single load.
C2_ReloadIdempotent ==
    loads >= 1 =>
        /\ city_country_lookup = SingleLoad.cc
        /\ city_lookup = SingleLoad.ci
        /\ country_lookup = SingleLoad.co
        /\ Answered => call.pois = FindStage(SingleLoad, call.city, call.country).pois

HasExactKey(poi) ==
    /\ poi.city_lower = Strip(Lower(call.city))
    /\ poi.country_lower = Strip(Lower(call.country))

\* C5: the exact (city, country) key wins: whenever a POI with the queried
\* lower-cased, stripped (city, country) exists, the result holds the POIs
\* with that key and no other POI (after one load: exactly the list of them,
\* in catalog order).
C5_ExactMatchFirst ==
    (Answered /\ \E i \in DOMAIN all_pois : HasExactKey(all_pois[i])) =>
        /\ Range(call.pois) = {poi \in Range(all_pois) : HasExactKey(poi)}
        /\ loads = 1 => call.pois = SelectSeq(all_pois, HasExactKey)

\* C5's case: an exact match exists while another POI matches by city alone
C5_Witness ==
    /\ Answered
    /\ \E i \in DOMAIN all_pois : HasExactKey(all_pois[i])
    /\ \E i \in DOMAIN all_pois :
          /\ all_pois[i].city_lower = Strip(Lower(call.city))
          /\ all_pois[i].country_lower # Strip(Lower(call.country))
    /\ \E i \in DOMAIN all_pois :
          StrIn(Strip(Lower(call.city)), all_pois[i].city_lower) /\ ~HasExactKey(all_pois[i])

\* C6: find_pois_for_location returns an empty list, and never raises, when
\* the catalog is empty or when both query strings are "".
C6_EmptyQueryEmptyResult ==
    (/\ call.op = "get_pois_for_location"
     /\ rows = <<>> \/ (call.city = "" /\ call.country = "")) =>
        ~call.raised /\ call.pois = <<>>

Supplied(partial) == partial # ""

\* C7: a suggestion list has at most 20 triples in non-increasing count order,
\* and every triple has a city containing the supplied partial city or a
\* country containing the supplied partial country (case-insensitive).
C7_SuggestionsContainPartial ==
    call.op = "get_location_suggestions" =>
        /\ Len(call.result) <= SuggestionLimit
        /\ \A i \in 1..(Len(call.result) - 1) : call.result[i][3] >= call.result[i + 1][3]
        /\ \A i \in DOMAIN call.result :
              \/ ~Supplied(call.partial_city) /\ ~Supplied(call.partial_country)
              \/ /\ Supplied(call.partial_city)
                 /\ StrIn(Lower(call.partial_city), Lower(call.result[i][1]))
              \/ /\ Supplied(call.partial_country)
                 /\ StrIn(Lower(call.partial_country), Lower(call.result[i][2]))

\* the sum of the counts of a list of (city, country, count) triples
RECURSIVE CountSum(_)
CountSum(locations) ==
    IF locations = <<>> THEN 0 ELSE Head(locations)[3] + CountSum(Tail(locations))

\* the catalog rows that have both a city and a country
LocatedRows == {r \in DOMAIN rows : Truthy(rows[r].city_name) /\ Truthy(rows[r].country_name)}

\* C29: after one successful load, for every triple (city, country, count)
\* returned by get_available_locations, find_pois_for_location(city, country)
\* returns exactly count POIs, and the counts of all triples sum to the
\* number of catalog POIs that have both a city and a country.
C29_LocationsAgreeWithLookup ==
    (call.op = "get_available_locations" /\ is_loaded /\ loads = 1) =>
        /\ \A k \in DOMAIN call.result :
              Len(FindStage(CurrentIndex, call.result[k][1], call.result[k][2]).pois)
                  = call.result[k][3]
        /\ CountSum(call.result) = Cardinality(LocatedRows)

(***************************************************************************)
(* The scoring engine, Models.py.                                          *)
(*                                                                         *)
(* A float is a rational <<n, d>> (d # 0), computed exactly; a raw signal  *)
(* is an integer number of tenths.  An argument that may be inf or nan is  *)
(* [fin |-> FALSE, n |-> -1 | 0 | 1] (-inf, nan, inf), a finite one        *)
(* [fin |-> TRUE, n |-> its value].  A field rounded to three decimals is  *)
(* an integer number of thousandths.                                       *)
(***************************************************************************)
Pending == [op |-> "pending"]

\* what a call returned
Return(v) == [op |-> "returned", value |-> v]

Abs(x) == IF x < 0 THEN 0 - x ELSE x

RECURSIVE Gcd(_, _)
Gcd(a, b) == IF b = 0 THEN a ELSE Gcd(b, a % b)

\* the same rational in lowest terms with a positive denominator
RNorm(q) ==
    LET g == Gcd(Abs(q[1]), Abs(q[2]))
        sgn == IF q[2] < 0 THEN -1 ELSE 1
    IN  <<sgn * (q[1] \div g), sgn * (q[2] \div g)>>

RAdd(a, b) == RNorm(<<a[1] * b[2] + b[1] * a[2], a[2] * b[2]>>)
RMul(a, b) == RNorm(<<a[1] * b[1], a[2] * b[2]>>)
RInt(n) == <<n, 1>>
RLeq(a, b) == RNorm(a)[1] * RNorm(b)[2] <= RNorm(b)[1] * RNorm(a)[2]

\* round(float(x), 3), in thousandths: to the nearest, a tie to the even one
Round3(q) ==
    LET r == RNorm(q)
        n == 1000 * r[1]
        fl == n \div r[2]
        rem == n - fl * r[2]
    IN  IF 2 * rem < r[2] THEN fl
        ELSE IF 2 * rem > r[2] THEN fl + 1
        ELSE IF fl % 2 = 0 THEN fl ELSE fl + 1

Fin(n) == [fin |-> TRUE, n |-> n]

\* normalize_score (lines 22-31); min_val and max_val are finite.  Nothing
\* in the try block raises on floats, so the except branch is never taken.
NormalizeScore(value, min_val, max_val) ==
    IF max_val = min_val THEN <<1, 2>>
    ELSE IF ~value.fin THEN <<0, 1>>
    ELSE RNorm(<<value.n - min_val, max_val - min_val>>)

\* dict.get(key, default)
Get(d, key, dflt) == IF key \in DOMAIN d THEN d[key] ELSE dflt

\* category_match (lines 34-38)
CategoryMatch(poi_type, user_interests) ==
    IF ~Truthy(poi_type) \/ user_interests = <<>> THEN 0
    ELSE IF \E i \in DOMAIN user_interests : Lower(user_interests[i]) = Lower(poi_type)
         THEN 1 ELSE 0

\* counting only the types spelled exactly like current_cat
DiversityPenaltyCaseSensitive(selected, current_cat) ==
    IF ~Truthy(current_cat) THEN <<0, 1>>
    ELSE RMul(<<-2, 10>>,
              RInt(Cardinality({i \in DOMAIN selected : selected[i].type = current_cat})))

\* diversity_penalty (lines 41-46): -0.2 * count_same
DiversityPenalty(selected, current_cat) ==
    IF ~Truthy(current_cat) THEN <<0, 1>>
    ELSE LET count_same ==
                 Cardinality({i \in DOMAIN selected :
                                 Lower(OrElse(selected[i].type, "")) = Lower(current_cat)})
         IN  RMul(<<-2, 10>>, RInt(count_same))

SetMin(S) == CHOOSE x \in S : \A y \in S : x <= y
SetMax(S) == CHOOSE x \in S : \A y \in S : x >= y

\* a weight, in hundredths, or its default (lines 143-146)
Weight(weights, key, dflt) == <<Get(weights, key, dflt), 100>>

\* the item score_items builds for candidates[i] (lines 128-160)
ScoredItem(candidates, i, user_ctx, weights) ==
    LET c == candidates[i]
        sem_vals == {candidates[j].semantic :
                        j \in {k \in DOMAIN candidates : "semantic" \in DOMAIN candidates[k]}}
        sem_min == IF sem_vals # {} THEN SetMin(sem_vals) ELSE 0
        sem_max == IF sem_vals # {} THEN SetMax(sem_vals) ELSE 10
        dist_vals == {candidates[j].distance_km :
                        j \in {k \in DOMAIN candidates : "distance_km" \in DOMAIN candidates[k]}}
        dist_min == IF dist_vals # {} THEN SetMin(dist_vals) ELSE 0
        dist_max == IF dist_vals # {} THEN SetMax(dist_vals) ELSE 10
        semantic_raw == Get(c, "semantic", 0)
        semantic_norm ==
            IF sem_vals # {} THEN NormalizeScore(Fin(semantic_raw), sem_min, sem_max)
            ELSE <<1, 2>>
        distance_norm ==
            IF "distance_km" \notin DOMAIN c \/ dist_vals = {} THEN <<1, 2>>
            ELSE RAdd(RInt(1),
                      RMul(RInt(-1), NormalizeScore(Fin(c.distance_km), dist_min, dist_max)))
        category_score == RInt(CategoryMatch(c.type, Get(user_ctx, "interests", <<>>)))
        selected_for_div == SubSeq(candidates, 1, i - 1)
        diversity_score == DiversityPenalty(selected_for_div, c.type)
        final_score ==
            RAdd(RAdd(RAdd(RMul(Weight(weights, "semantic", 50), semantic_norm),
                           RMul(Weight(weights, "distance", 30), distance_norm)),
                      RMul(Weight(weights, "category", 15), category_score)),
                 RMul(Weight(weights, "diversity", 5), diversity_score))
    IN  [poi_id |-> c.poi_id,
         type |-> c.type,
         semantic |-> Round3(semantic_norm),
         distance |-> Round3(distance_norm),
         category_score |-> Round3(category_score),
         diversity_score |-> Round3(diversity_score),
         final_score |-> Round3(final_score)]

Reverse(s) == List([i \in 1..Len(s) |-> s[Len(s) + 1 - i]])

\* sorting ascending and reversing the list, which puts equal scores in
\* reverse input order
SortedAscendingReversed(reranked) ==
    Reverse(SortByKeys(reranked, [i \in DOMAIN reranked |-> <<reranked[i].final_score>>]))

\* sorted(reranked, key=lambda x: x["final_score"], reverse=True) (line 164)
SortedByFinalScore(reranked) ==
    SortByKeys(reranked, [i \in DOMAIN reranked |-> <<0 - reranked[i].final_score>>])

\* score_items (lines 109-164)
ScoreItems(candidates, user_ctx, weights) ==
    SortedByFinalScore(List([i \in DOMAIN candidates |->
                                ScoredItem(candidates, i, user_ctx, weights)]))

\* rerank (lines 167-170)
DefaultWeights == [semantic |-> 50, distance |-> 30, category |-> 15, diversity |-> 5]

Rerank(candidates, user_ctx) == ScoreItems(candidates, user_ctx, DefaultWeights)

(***************************************************************************)
(* The calls of the scoring engine: Init draws the arguments, the action   *)
(* applies the function.                                                   *)
(***************************************************************************)
\* the longest candidate list, and the largest raw value given to normalize_score
MaxCands == 3
MaxRaw == 3

\* What the generators of Candidates.py yield, less the poi_id: semantic
\* candidates carry 'semantic' (tenths, a cosine in [-1, 1]), geo candidates
\* 'distance_km', popularity candidates neither; merged ones may carry both.
CandidateShapes ==
    { [type |-> "hotel", semantic |-> 2],
      [type |-> "hotel", semantic |-> 8, distance_km |-> 1],
      [type |-> "Hotel", distance_km |-> 3],
      [type |-> "museum"],
      [type |-> "museum", semantic |-> 8],
      [type |-> "museum", distance_km |-> 1],
      [type |-> None, semantic |-> -5],
      [type |-> "park", semantic |-> 2, distance_km |-> 3] }

\* candidate lists: candidates[i] has poi_id i
CandidateLists ==
    UNION { { [i \in 1..n |-> shapes[i] @@ [poi_id |-> i]] :
                shapes \in [1..n -> CandidateShapes] } : n \in 0..MaxCands }

UserContexts == { [city |-> "Dahab"], [city |-> "Dahab", interests |-> <<"HOTEL", "nature">>] }

WeightConfigs ==
    { DefaultWeights,
      [distance |-> 100],
      [semantic |-> 0, distance |-> 0, category |-> 0, diversity |-> 0] }

NormalizeValues ==
    {Fin(n) : n \in -1..MaxRaw} \cup {[fin |-> FALSE, n |-> k] : k \in {-1, 0, 1}}

ScoreCalls ==
    { [op |-> "normalize_score", value |-> v, min_val |-> lo, max_val |-> hi] :
        v \in NormalizeValues, lo \in -1..MaxRaw, hi \in -1..MaxRaw }
    \cup { [op |-> "score_items", candidates |-> cs, user_ctx |-> ctx, weights |-> w] :
             cs \in CandidateLists, ctx \in UserContexts, w \in WeightConfigs }
    \cup { [op |-> "rerank", candidates |-> cs, user_ctx |-> ctx] :
             cs \in CandidateLists, ctx \in UserContexts }

NormalizeScoreCall ==
    /\ sc_in.op = "normalize_score" /\ sc_out.op = "pending"
    /\ sc_out' = Return(NormalizeScore(sc_in.value, sc_in.min_val, sc_in.max_val))
    /\ UNCHANGED <<sc_in, idxVars, itVars, genVars, ingVars>>

ScoreItemsCall ==
    /\ sc_in.op = "score_items" /\ sc_out.op = "pending"
    /\ sc_out' = Return(ScoreItems(sc_in.candidates, sc_in.user_ctx, sc_in.weights))
    /\ UNCHANGED <<sc_in, idxVars, itVars, genVars, ingVars>>

RerankCall ==
    /\ sc_in.op = "rerank" /\ sc_out.op = "pending"
    /\ sc_out' = Return(Rerank(sc_in.candidates, sc_in.user_ctx))
    /\ UNCHANGED <<sc_in, idxVars, itVars, genVars, ingVars>>

\* no catalog, no call on the index
IndexIdle == rows = <<>> /\ NewIndex

InitScore ==
    /\ IndexIdle /\ ItinIdle /\ GenIdle /\ IngestIdle
    /\ sc_in \in ScoreCalls /\ sc_out = Pending

NextScore == NormalizeScoreCall \/ ScoreItemsCall \/ RerankCall

SpecScore == InitScore /\ [][NextScore]_vars

(***************************************************************************)
(* Claims about the scoring engine (checked under SpecScore).              *)
(***************************************************************************)
Returned(op) == sc_in.op = op /\ sc_out.op = "returned"

\* C8: normalize_score(v, lo, hi) returns 0.5 when lo = hi, and a value in
\* [0, 1] for every finite v with lo < hi, also when v is outside [lo, hi].
C8_NormalizeInUnitInterval ==
    Returned("normalize_score") =>
        /\ sc_in.min_val = sc_in.max_val => sc_out.value = <<1, 2>>
        /\ (sc_in.value.fin /\ sc_in.min_val < sc_in.max_val) =>
              RLeq(RInt(0), sc_out.value) /\ RLeq(sc_out.value, RInt(1))

Scored == Returned("score_items") \/ Returned("rerank")

\* the returned item of the candidate at input position i (its poi_id)
ItemOf(i) == sc_out.value[CHOOSE k \in DOMAIN sc_out.value : sc_out.value[k].poi_id = i]

\* C9: a candidate that lacks a raw signal gets the neutral sub-score 0.5 for
\* it: 0.5 semantic without 'semantic', 0.5 distance without 'distance_km',
\* also when other candidates of the list carry the signal.
C9_MissingSignalNeutral ==
    Scored =>
        \A i \in DOMAIN sc_in.candidates :
            /\ "semantic" \notin DOMAIN sc_in.candidates[i] => ItemOf(i).semantic = 500
            /\ "distance_km" \notin DOMAIN sc_in.candidates[i] => ItemOf(i).distance = 500

\* C10: score_items / rerank return one scored item per input candidate (same
\* poi_ids, same length, empty for empty), in non-increasing final_score
\* order, equal final_scores in input order.
C10_RankedPermutation ==
    Scored =>
        /\ Len(sc_out.value) = Len(sc_in.candidates)
        /\ \A i \in DOMAIN sc_in.candidates :
              Cardinality({k \in DOMAIN sc_out.value : sc_out.value[k].poi_id = i}) = 1
        /\ \A k \in 1..(Len(sc_out.value) - 1) :
              \/ sc_out.value[k].final_score > sc_out.value[k + 1].final_score
              \/ /\ sc_out.value[k].final_score = sc_out.value[k + 1].final_score
                 /\ sc_out.value[k].poi_id < sc_out.value[k + 1].poi_id

\* C10's case: a ranking that differs from the input order and holds a tie
C10_Witness ==
    /\ Scored
    /\ \E k \in 1..(Len(sc_out.value) - 1) : sc_out.value[k].poi_id > sc_out.value[k + 1].poi_id
    /\ \E k \in 1..(Len(sc_out.value) - 1) : sc_out.value[k].final_score = sc_out.value[k + 1].final_score

\* the weights of the call: rerank passes its default_weights (line 169)
WeightsUsed == IF sc_in.op = "rerank" THEN DefaultWeights ELSE sc_in.weights

\* the weighted sum of an item's returned sub-score fields, in hundred-
\* thousandths (weights are hundredths, fields thousandths)
FieldSum(item) ==
    Get(WeightsUsed, "semantic", 50) * item.semantic
    + Get(WeightsUsed, "distance", 30) * item.distance
    + Get(WeightsUsed, "category", 15) * item.category_score
    + Get(WeightsUsed, "diversity", 5) * item.diversity_score

\* C11: the final_score of every returned item equals w_sem*semantic +
\* w_dist*distance + w_cat*category_score + w_div*diversity_score computed
\* from that item's own returned fields, absent weights being 0.5 / 0.3 /
\* 0.15 / 0.05.
C11_FinalScoreIsFieldSum ==
    Scored =>
        \A k \in DOMAIN sc_out.value :
            100 * sc_out.value[k].final_score = FieldSum(sc_out.value[k])

\* the candidates at input positions before i whose type is that of
\* candidate i, letter case aside
EarlierSameType(i) ==
    {j \in 1..(i - 1) :
        /\ sc_in.candidates[j].type # None
        /\ Lower(sc_in.candidates[j].type) = Lower(sc_in.candidates[i].type)}

\* C12: the diversity sub-score of the i-th input candidate is -0.2 times the
\* number of earlier input candidates of the same type (case-insensitively),
\* 0 for a candidate without a type; it is fixed by the input order, whatever
\* the rank of the item, and never positive.
C12_DiversityByInputOrder ==
    Scored =>
        \A i \in DOMAIN sc_in.candidates :
            /\ ItemOf(i).diversity_score =
                  IF sc_in.candidates[i].type = None THEN 0
                  ELSE 0 - 200 * Cardinality(EarlierSameType(i))
            /\ ItemOf(i).diversity_score <= 0

\* C12's case: a candidate penalised for an earlier one whose type differs
\* from its own in letter case only, and ranked above that earlier one
C12_Witness ==
    /\ Scored
    /\ \E i \in DOMAIN sc_in.candidates : \E j \in 1..(i - 1) :
          /\ sc_in.candidates[j].type # None /\ sc_in.candidates[i].type # None
          /\ sc_in.candidates[j].type # sc_in.candidates[i].type
          /\ Lower(sc_in.candidates[j].type) = Lower(sc_in.candidates[i].type)
          /\ ItemOf(i).diversity_score < 0
          /\ ItemOf(i).final_score > ItemOf(j).final_score

(***************************************************************************)
(* The itinerary assembler, itinerary.py.  A score is an integer number of *)
(* hundredths (1.0 is 100, the boost 0.25 is 25).                          *)
(***************************************************************************)
ThemeNames == <<"cultural", "adventure", "foodies", "family", "couples", "friends">>

\* TOUR_THEMES (lines 16-23)
TOUR_THEMES ==
    [cultural |-> [keywords |-> <<"museum", "monument", "historic", "temple", "gallery",
                                  "heritage", "church", "mosque", "castle", "ruins">>,
                   boost |-> 25],
     adventure |-> [keywords |-> <<"nature", "beach", "desert", "hiking", "diving",
                                   "snorkel", "quad", "safari", "kayak", "trail", "climb">>,
                    boost |-> 25],
     foodies |-> [keywords |-> <<"restaurant", "cafe", "market", "street food", "bakery",
                                 "eatery", "diner">>,
                  boost |-> 30],
     family |-> [keywords |-> <<"park", "zoo", "aquarium", "children", "playground",
                                "amusement", "family">>,
                 boost |-> 20],
     couples |-> [keywords |-> <<"romantic", "sunset", "candlelight", "spa", "scenic",
                                 "viewpoint", "resort">>,
                  boost |-> 25],
     friends |-> [keywords |-> <<"bar", "club", "sports", "fun", "nightlife",
                                 "escape room", "bowling">>,
                  boost |-> 20]]

\* any(x in t for x in keywords)
AnyIn(keywords, t) == \E i \in DOMAIN keywords : StrIn(keywords[i], t)

\* normalize_category trying the tourist group before the hotel group
NormalizeCategoryTouristFirst(raw_type) ==
    IF ~Truthy(raw_type) THEN "other"
    ELSE LET t == Lower(raw_type)
         IN  IF AnyIn(<<"museum", "nature", "beach", "park", "tourist", "monument",
                        "landmark", "viewpoint", "temple", "mosque", "church",
                        "castle">>, t)
             THEN "tourist place"
             ELSE IF AnyIn(<<"hotel", "resort", "hostel", "inn", "lodg">>, t) THEN "hotel"
             ELSE IF AnyIn(<<"restaurant", "cafe", "bar", "pub", "food", "eat">>, t)
                  THEN "restaurant"
             ELSE IF AnyIn(<<"shop", "mall", "market", "store", "boutique", "bazaar">>, t)
                  THEN "shop"
             ELSE IF AnyIn(<<"club", "entertainment", "nightlife">>, t) THEN "entertainment"
             ELSE "other"

\* normalize_category (lines 26-36)
NormalizeCategory(raw_type) ==
    IF ~Truthy(raw_type) THEN "other"
    ELSE LET t == Lower(raw_type)
         IN  IF AnyIn(<<"hotel", "resort", "hostel", "inn", "lodg">>, t) THEN "hotel"
             ELSE IF AnyIn(<<"restaurant", "cafe", "bar", "pub", "food", "eat">>, t)
                  THEN "restaurant"
             ELSE IF AnyIn(<<"shop", "mall", "market", "store", "boutique", "bazaar">>, t)
                  THEN "shop"
             ELSE IF AnyIn(<<"museum", "nature", "beach", "park", "tourist", "monument",
                             "landmark", "viewpoint", "temple", "mosque", "church",
                             "castle">>, t)
                  THEN "tourist place"
             ELSE IF AnyIn(<<"club", "entertainment", "nightlife">>, t) THEN "entertainment"
             ELSE "other"

\* the themes hit by the text as it is written
ClassifyThemeTextCaseSensitive(text) ==
    IF ~Truthy(text) THEN <<>>
    ELSE LET Hit(theme) == AnyIn(TOUR_THEMES[theme].keywords, text)
         IN  SelectSeq(ThemeNames, Hit)

\* classify_theme_text (lines 38-47): the themes hit, in TOUR_THEMES order
ClassifyThemeText(text) ==
    IF ~Truthy(text) THEN <<>>
    ELSE LET text_l == Lower(text)
             Hit(theme) == AnyIn(TOUR_THEMES[theme].keywords, text_l)
         IN  SelectSeq(ThemeNames, Hit)

\* Python's list slice s[a:b]
Slice(s, a, b) == SubSeq(s, a + 1, IF b < Len(s) THEN b ELSE Len(s))

\* theme_score (lines 69-70)
ThemeScore(c, theme) ==
    IF Truthy(theme) /\ theme \in Range(Get(c, "themes", <<>>)) THEN 1 ELSE 0

\* filling up with the head of the pool, whatever the types
FillAnyType(pool, st, plan_size) ==
    [st EXCEPT !.selected = st.selected \o Slice(pool, 0, plan_size - Len(st.selected))]

\* the loop of select_with_hotel over the sorted pool (lines 74-87)
RECURSIVE FillLoop(_, _, _)
FillLoop(pool, st, plan_size) ==
    IF pool = <<>> \/ Len(st.selected) >= plan_size THEN st
    ELSE LET c == Head(pool)
         IN  IF c.poi_id \in st.seen_ids THEN FillLoop(Tail(pool), st, plan_size)
             ELSE IF c.type \notin st.seen_types
             THEN FillLoop(Tail(pool),
                           [selected |-> Append(st.selected, c),
                            seen_types |-> st.seen_types \cup {c.type},
                            seen_ids |-> st.seen_ids \cup {c.poi_id}],
                           plan_size)
             ELSE IF Cardinality({i \in DOMAIN st.selected :
                                     st.selected[i].type = c.type}) < 2
             THEN FillLoop(Tail(pool),
                           [st EXCEPT !.selected = Append(st.selected, c),
                                      !.seen_ids = st.seen_ids \cup {c.poi_id}],
                           plan_size)
             ELSE FillLoop(Tail(pool), st, plan_size)

\* the placeholder of lines 91-98
DummyHotel ==
    [poi_id |-> -1, type |-> "hotel", score |-> 0, name |-> "Hotel check-in / rest",
     description |-> "", themes |-> <<>>]

IsHotel(c) == c.type = "hotel"
NotHotel(c) == c.type # "hotel"

\* sorting by score, the lowest first
ByScoreAscending(list) == SortByKeys(list, [i \in DOMAIN list |-> <<list[i].score>>])

\* list.sort(key=score, reverse=True) (lines 56, 248)
ByScore(list) == SortByKeys(list, [i \in DOMAIN list |-> <<0 - list[i].score>>])

\* sorting the pool by score alone
ByScoreIgnoringTheme(list, theme) == ByScore(list)

\* pool.sort(key=(theme_score, score), reverse=True) (line 72)
ByThemeThenScore(list, theme) ==
    SortByKeys(list, [i \in DOMAIN list |->
                         <<0 - ThemeScore(list[i], theme), 0 - list[i].score>>])

\* the fallback of lines 90-98
WithDummyHotel(selected) ==
    IF \E i \in DOMAIN selected : IsHotel(selected[i])
    THEN selected ELSE <<DummyHotel>> \o selected

\* truncating without the single-hotel step
KeepAllHotels(selected, plan_size) == Slice(selected, 0, plan_size)

\* lines 100-107: a single hotel, and at most plan_size items
SingleHotel(selected, plan_size) ==
    LET hotels == SelectSeq(selected, IsHotel)
    IN  Slice(IF Len(hotels) > 1
              THEN <<hotels[1]>> \o Slice(SelectSeq(selected, NotHotel), 0, plan_size - 1)
              ELSE selected,
              0, plan_size)

\* `selected` when the loop of lines 74-87 ends, `hotels` being sorted
SelectedAfterLoop(candidates, hotels, plan_size, theme) ==
    LET NotSeen(c) == hotels = <<>> \/ c.poi_id # hotels[1].poi_id
    IN  FillLoop(ByThemeThenScore(SelectSeq(candidates, NotSeen), theme),
                 [selected |-> IF hotels # <<>> THEN <<hotels[1]>> ELSE <<>>,
                  seen_types |-> IF hotels # <<>> THEN {"hotel"} ELSE {},
                  seen_ids |-> IF hotels # <<>> THEN {hotels[1].poi_id} ELSE {}],
                 plan_size).selected

\* select_with_hotel from line 57 on, `hotels` being sorted
SelectAround(candidates, hotels, plan_size, theme) ==
    SingleHotel(WithDummyHotel(SelectedAfterLoop(candidates, hotels, plan_size, theme)),
                plan_size)

\* select_with_hotel (lines 50-107)
SelectWithHotel(candidates, plan_size_arg, theme) ==
    SelectAround(candidates, ByScore(SelectSeq(candidates, IsHotel)),
                 IF plan_size_arg < 2 THEN 2 ELSE plan_size_arg, theme)

(***************************************************************************)
(* build_time_slots (lines 110-154).  A datetime is its number of minutes  *)
(* since 1900-01-01 00:00, the date strptime gives a time of day.          *)
(***************************************************************************)
Digits == <<"0", "1", "2", "3", "4", "5", "6", "7", "8", "9">>

IsDigits(s) == \A i \in 1..Len(s) : \E d \in DOMAIN Digits : Digits[d] = SubSeq(s, i, i)

DigitVal(c) == (CHOOSE d \in DOMAIN Digits : Digits[d] = c) - 1

RECURSIVE NumVal(_)
NumVal(s) ==
    IF Len(s) = 0 THEN 0
    ELSE 10 * NumVal(SubSeq(s, 1, Len(s) - 1)) + DigitVal(SubSeq(s, Len(s), Len(s)))

ParseError == -1

\* datetime.strptime(s, "%H:%M"): one or two digits, a colon, one or two
\* digits, hour < 24 and minute < 60; anything else is a ValueError
Strptime(s) ==
    LET colons == {i \in 1..(IF s = None THEN 0 ELSE Len(s)) : SubSeq(s, i, i) = ":"}
        k == CHOOSE i \in colons : TRUE
        hh == SubSeq(s, 1, k - 1)
        mm == SubSeq(s, k + 1, Len(s))
    IN  IF s = None \/ Cardinality(colons) # 1 THEN ParseError
        ELSE IF Len(hh) \notin {1, 2} \/ Len(mm) \notin {1, 2} THEN ParseError
        ELSE IF ~IsDigits(hh) \/ ~IsDigits(mm) THEN ParseError
        ELSE IF NumVal(hh) > 23 \/ NumVal(mm) > 59 THEN ParseError
        ELSE 60 * NumVal(hh) + NumVal(mm)

\* dt.strftime("%H:%M"): the time of day, the date dropped
Strftime(t) ==
    LET h == (t \div 60) % 24
        m == t % 60
    IN  Digits[(h \div 10) + 1] \o Digits[(h % 10) + 1] \o ":"
        \o Digits[(m \div 10) + 1] \o Digits[(m % 10) + 1]

\* snapping down to the full hour
SnapDownHour(dt) == dt - (dt % 60)

\* snap_down (lines 116-118)
SnapDown(dt) == IF dt % 60 < 30 THEN dt - (dt % 60) ELSE dt - (dt % 60) + 30

\* snap_up (lines 120-126)
SnapUp(dt) ==
    IF dt % 60 = 0 THEN dt
    ELSE IF dt % 60 <= 30 THEN dt - (dt % 60) + 30
    ELSE dt - (dt % 60) + 60

\* math.ceil(a / b) for b > 0
CeilDiv(a, b) == 0 - ((0 - a) \div b)

\* the loop of lines 141-151 from slot i on, cur being its start
RECURSIVE SlotLoop(_, _, _, _, _)
SlotLoop(i, cur, n, step, end_dt) ==
    IF i >= n THEN <<>>
    ELSE LET stepped == cur + step
             nxt == IF i = n - 1 \/ stepped > end_dt THEN end_dt ELSE stepped
         IN  <<<<Strftime(cur), Strftime(nxt)>>>>
             \o (IF nxt >= end_dt THEN <<>> ELSE SlotLoop(i + 1, nxt, n, step, end_dt))

\* build_time_slots from line 128 on, start and end being snapped
SlotsBetween(start_dt, end_dt, n) ==
    LET total_minutes == IF end_dt - start_dt > 0 THEN end_dt - start_dt ELSE 0
        raw_step == CeilDiv(total_minutes, n)
        step == IF CeilDiv(raw_step, 30) * 30 > 30 THEN CeilDiv(raw_step, 30) * 30 ELSE 30
        walked == SlotLoop(0, start_dt, n, step, end_dt)
        padded == walked \o List([k \in 1..(n - Len(walked)) |->
                                     <<Strftime(end_dt), Strftime(end_dt)>>])
    IN  IF n <= 0 \/ total_minutes = 0 THEN <<>> ELSE Slice(padded, 0, n)

\* build_time_slots: [raised |-> TRUE] for a ValueError of strptime, else the
\* list of (start, end) strings
BuildTimeSlots(start_time, end_time, n) ==
    IF Strptime(start_time) = ParseError \/ Strptime(end_time) = ParseError
    THEN [raised |-> TRUE, slots |-> <<>>]
    ELSE [raised |-> FALSE,
          slots |-> SlotsBetween(SnapDown(Strptime(start_time)),
                                 SnapUp(Strptime(end_time)), n)]

(***************************************************************************)
(* build_itinerary (lines 157-351)                                         *)
(***************************************************************************)
\* str(x) inside an f-string
Str(x) == IF x = None THEN "None" ELSE x

RECURSIVE IntStr(_)
IntStr(n) == IF n < 10 THEN Digits[n + 1] ELSE IntStr(n \div 10) \o Digits[(n % 10) + 1]

UpperChar(c) ==
    CASE c = "a" -> "A" [] c = "b" -> "B" [] c = "c" -> "C" [] c = "d" -> "D"
      [] c = "e" -> "E" [] c = "f" -> "F" [] c = "g" -> "G" [] c = "h" -> "H"
      [] c = "i" -> "I" [] c = "j" -> "J" [] c = "k" -> "K" [] c = "l" -> "L"
      [] c = "m" -> "M" [] c = "n" -> "N" [] c = "o" -> "O" [] c = "p" -> "P"
      [] c = "q" -> "Q" [] c = "r" -> "R" [] c = "s" -> "S" [] c = "t" -> "T"
      [] c = "u" -> "U" [] c = "v" -> "V" [] c = "w" -> "W" [] c = "x" -> "X"
      [] c = "y" -> "Y" [] c = "z" -> "Z" [] OTHER -> c

IsLetter(c) == LowerChar(c) # c \/ UpperChar(c) # c

\* str.title(): a letter that follows a non-letter is upper-cased, the others lower-cased
RECURSIVE TitleFrom(_, _)
TitleFrom(s, after_letter) ==
    IF Len(s) = 0 THEN ""
    ELSE LET c == SubSeq(s, 1, 1)
         IN  (IF after_letter THEN LowerChar(c) ELSE UpperChar(c))
             \o TitleFrom(SubSeq(s, 2, Len(s)), IsLetter(c))

Title(s) == TitleFrom(s, FALSE)

\* famous_cities (lines 306-317)
FamousCities ==
    [paris |-> "Parisian Adventure", london |-> "London Explorer",
     tokyo |-> "Tokyo Discovery", rome |-> "Roman Holiday", cairo |-> "Cairo Explorer",
     dubai |-> "Dubai Luxury", barcelona |-> "Barcelona Vibes",
     sydney |-> "Sydney Explorer", mumbai |-> "Mumbai Discovery"]
    @@ ("new york" :> "NYC Experience")

\* generate_tour_name (lines 300-323)
GenerateTourName(city, country, days_count) ==
    IF Lower(city) \in DOMAIN FamousCities
    THEN IntStr(days_count) \o "-Day " \o FamousCities[Lower(city)]
    ELSE IntStr(days_count) \o "-Day " \o Title(city) \o " Discovery"

\* generate_tour_description (lines 325-340)
GenerateTourDescription(city, country, days_count, per_day, total_places) ==
    LET duration_desc ==
            CASE days_count = 3 -> "Perfect weekend getaway"
              [] days_count = 4 -> "Comprehensive exploration"
              [] days_count = 5 -> "Deep cultural immersion"
              [] days_count = 6 -> "Ultimate travel experience"
              [] OTHER -> IntStr(days_count) \o "-day adventure"
    IN  "A " \o duration_desc \o " in " \o Title(city) \o ", " \o Title(country)
        \o ". Discover " \o IntStr(total_places) \o " carefully selected places across "
        \o IntStr(days_count) \o " days, with " \o IntStr(per_day)
        \o " unique experiences each day."

\* a zero-day result that always gives the reason of lines 216-222
ZeroDaysNoLocation(city, short_description) ==
    [days_count |-> 0, name |-> "Trip in " \o Str(city),
     short_description |-> "No places found", days |-> <<>>]

\* the zero-day results of lines 170-175, 187-192 and 216-222
ZeroDays(city, short_description) ==
    [days_count |-> 0, name |-> "Trip in " \o Str(city),
     short_description |-> short_description, days |-> <<>>]

\* the candidate of one POI (lines 197-214)
Candidate(poi_data, theme) ==
    LET base_type == NormalizeCategory(poi_data.type)
        themes == ClassifyThemeText(base_type \o " " \o poi_data.name \o " "
                                    \o poi_data.description)
    IN  [poi_id |-> poi_data.poi_id, name |-> poi_data.name, type |-> base_type,
         description |-> poi_data.description, themes |-> themes,
         score |-> IF Truthy(theme) /\ theme \in Range(themes)
                   THEN 100 + TOUR_THEMES[theme].boost ELSE 100,
         city |-> poi_data.city, country |-> poi_data.country]

\* DaysCount with every `>=` of lines 225-236 read as `>`
DaysCountAbove(available_places) ==
    IF available_places > 25
    THEN LET per5 == available_places \div 5
             at_least5 == IF per5 > 5 THEN per5 ELSE 5
         IN  IF at_least5 < 6 THEN at_least5 ELSE 6
    ELSE IF available_places > 20 THEN 4
    ELSE 3

\* days_count (lines 225-236)
DaysCount(available_places) ==
    IF available_places >= 25
    THEN LET per5 == available_places \div 5
             at_least5 == IF per5 > 5 THEN per5 ELSE 5
         IN  IF at_least5 < 6 THEN at_least5 ELSE 6
    ELSE IF available_places >= 20 THEN 4
    ELSE IF available_places >= 15 THEN 3
    ELSE 3

PerDay == 5

\* the filler of lines 259-268
Filler(city, country) ==
    [poi_id |-> -2, name |-> "Free time / transit", type |-> "free time",
     description |-> "Buffer time for rest or transit", themes |-> <<>>, score |-> 0,
     city |-> city, country |-> country]

\* selected.sort(key=(0 if hotel else 1, -score)) (line 243)
HotelFirst(selected) ==
    SortByKeys(selected, [i \in DOMAIN selected |->
                             <<IF selected[i].type = "hotel" THEN 0 ELSE 1,
                               0 - selected[i].score>>])

\* every candidate by descending score, the selected ones included
AllByScore(candidates, selected) == ByScore(candidates)

\* `remaining` of lines 247-248
Remaining(candidates, selected) ==
    LET Unselected(c) == \A i \in DOMAIN selected : selected[i].poi_id # c.poi_id
    IN  ByScore(SelectSeq(candidates, Unselected))

\* the fillers of lines 257-268
Filled(selected, total_needed, city, country) ==
    selected \o List([k \in 1..(total_needed - Len(selected)) |-> Filler(city, country)])

\* filling up with fillers alone
UnderfillWithFillers(candidates, selected, total_needed, city, country) ==
    IF Len(selected) < total_needed
    THEN Filled(selected, total_needed, city, country)
    ELSE selected

\* lines 246-268 on the sorted selection
Underfill(candidates, selected, total_needed, city, country) ==
    IF Len(selected) < total_needed
    THEN Filled(selected \o Slice(Remaining(candidates, selected), 0,
                                  total_needed - Len(selected)),
                total_needed, city, country)
    ELSE selected

\* `selected` after lines 242-268
SelectedFor(candidates, total_needed, theme, city, country) ==
    Underfill(candidates, HotelFirst(SelectWithHotel(candidates, total_needed, theme)),
              total_needed, city, country)

\* lines 284-297: the day's places zipped with its slots
DayPayload(day_places, ts, day_index) ==
    LET n == IF Len(ts.slots) < Len(day_places) THEN Len(ts.slots) ELSE Len(day_places)
    IN  [raised |-> ts.raised,
         day |-> [day |-> day_index + 1,
                  places |-> List([k \in 1..n |->
                                      [id |-> day_places[k].poi_id,
                                       name |-> day_places[k].name,
                                       category |-> day_places[k].type,
                                       start |-> ts.slots[k][1],
                                       end |-> ts.slots[k][2],
                                       day |-> day_index + 1]])]]

\* lines 283-297 for the places of one day
DayWith(day_places, day_index, start_time, end_time) ==
    DayPayload(day_places, BuildTimeSlots(start_time, end_time, Len(day_places)), day_index)

\* one day of lines 272-297: [raised |-> TRUE] when build_time_slots raises
DayOf(selected, day_index, start_time, end_time) ==
    DayWith(Slice(selected, day_index * PerDay, (day_index + 1) * PerDay),
            day_index, start_time, end_time)

\* what build_itinerary leaves when it returns no day or raises
NoDays(ix, city, short_description) ==
    [ix |-> ix, raised |-> FALSE, candidates |-> <<>>, selected |-> <<>>,
     result |-> ZeroDays(city, short_description)]

\* lines 299-351 on the days built, or the exception of one of them
WithDays(ix, candidates, days_count, selected, day_list, city, country) ==
    IF \E d \in DOMAIN day_list : day_list[d].raised
    THEN [NoDays(ix, city, "") EXCEPT !.raised = TRUE, !.candidates = candidates,
                                     !.selected = selected]
    ELSE [ix |-> ix, raised |-> FALSE, candidates |-> candidates, selected |-> selected,
          result |->
              [days_count |-> days_count,
               name |-> GenerateTourName(city, country, days_count),
               short_description |->
                   GenerateTourDescription(city, country, days_count, PerDay,
                                           days_count * PerDay),
               days |-> List([d \in DOMAIN day_list |-> day_list[d].day])]]

\* lines 270-351 on `selected`
WithSelected(ix, candidates, days_count, selected, city, country, start_time, end_time) ==
    WithDays(ix, candidates, days_count, selected,
             List([d \in 1..days_count |-> DayOf(selected, d - 1, start_time, end_time)]),
             city, country)

\* lines 238-351 on days_count
WithDaysCount(ix, candidates, days_count, city, country, start_time, end_time, theme) ==
    WithSelected(ix, candidates, days_count,
                 SelectedFor(candidates, days_count * PerDay, theme, city, country),
                 city, country, start_time, end_time)

\* lines 216-351 on the candidates (not empty)
WithCandidates(ix, candidates, city, country, start_time, end_time, theme) ==
    WithDaysCount(ix, candidates, DaysCount(Len(candidates)),
                  city, country, start_time, end_time, theme)

\* lines 180-351 on what get_pois_for_location gave
WithPois(found, city, country, start_time, end_time, theme) ==
    IF found.raised THEN [NoDays(found.ix, city, "") EXCEPT !.raised = TRUE]
    ELSE IF found.pois = <<>>
    THEN NoDays(found.ix, city, "No places found for " \o Str(city) \o ", " \o Str(country))
    ELSE WithCandidates(found.ix,
                        List([i \in DOMAIN found.pois |-> Candidate(found.pois[i], theme)]),
                        city, country, start_time, end_time, theme)

\* build_itinerary from line 177 on, on a loaded index: the index it leaves,
\* whether it raised, what it returned, and the lists `candidates` and
\* `selected` it went through
Assemble(ix0, city, country, start_time, end_time, theme) ==
    WithPois(FindPoisForLocation(ix0, city, country, TRUE),
             city, country, start_time, end_time, theme)

\* build_itinerary setting the flag whatever initialize_data answered
BuildItineraryFlagOnAttempt(ix0, initialized, city, country, start_time, end_time, theme, db_ok) ==
    LET loaded == LoadAllData(ix0, db_ok)
    IN  IF ~initialized /\ ~loaded.ok
        THEN NoDays(ix0, city, "Failed to load data")
             @@ [initialized |-> TRUE, load |-> "failed"]
        ELSE Assemble(IF initialized THEN ix0 ELSE loaded,
                      city, country, start_time, end_time, theme)
             @@ [initialized |-> TRUE, load |-> IF initialized THEN "no" ELSE "ok"]

\* build_itinerary (lines 157-351); initialized is the function attribute
\* _data_initialized, db_ok as in LoadAllData
BuildItinerary(ix0, initialized, city, country, start_time, end_time, theme, db_ok) ==
    LET loaded == LoadAllData(ix0, db_ok)
    IN  IF ~initialized /\ ~loaded.ok
        THEN NoDays(ix0, city, "Failed to load data")
             @@ [initialized |-> FALSE, load |-> "failed"]
        ELSE Assemble(IF initialized THEN ix0 ELSE loaded,
                      city, country, start_time, end_time, theme)
             @@ [initialized |-> TRUE, load |-> IF initialized THEN "no" ELSE "ok"]

(***************************************************************************)
(* The service: POST /itinerary calls build_itinerary, GET /locations      *)
(* calls initialize_data.  Init draws the catalog and the arguments of the *)
(* requests; every POI of a catalog is in Cairo, Egypt.                    *)
(***************************************************************************)
\* the longest catalog drawn from SmallKinds, and the longest catalog
MaxSmall == 3
MaxPool == 31

Kind(type, name, desc) == [type |-> type, name |-> name, description |-> desc]

\* two POIs of category hotel and one of another category
SmallKinds ==
    <<Kind("Hotel", "Nile Hotel", "river view"),
      Kind("Beach Resort", "Sun", "scenic"),
      Kind("museum", "Egyptian Museum", "historic")>>

\* the kinds a long catalog cycles through, with and without hotels
CycleWithHotel ==
    <<Kind("museum", "Giza", "historic"), Kind("cafe", "Riche", None),
      Kind("mall", "Stars", "shops"), Kind("Hostel", "Dahab", ""),
      Kind("night club", "Jazz", "fun"), Kind(None, None, "office")>>

\* kinds that all normalise to 'tourist place'
TouristOnly ==
    <<Kind("museum", "Giza", "historic"), Kind("park", "Azhar", "sunset"),
      Kind("Tourist attraction", "Tower", "")>>

CycleNoHotel ==
    <<Kind("park", "Azhar", "sunset"), Kind("temple", "Karnak", "ruins"),
      Kind("bazaar", "Khan", "market"), Kind("monument", "Citadel", "castle"),
      Kind("Food court", "Koshary", "diner")>>

RowsOf(kinds) ==
    List([i \in DOMAIN kinds |->
             Row(i, kinds[i].name, kinds[i].type, kinds[i].description, "Cairo", "Egypt")])

\* the catalog of n rows that walks round `kinds`
Cycled(kinds, n) == RowsOf(List([i \in 1..n |-> kinds[((i - 1) % Len(kinds)) + 1]]))

Rotations(kinds) ==
    { List([i \in DOMAIN kinds |-> kinds[((i + r - 1) % Len(kinds)) + 1]]) :
        r \in 0..(Len(kinds) - 1) }

SmallCatalogs == { Cycled(kinds, n) : kinds \in Rotations(SmallKinds), n \in 0..MaxSmall }

\* the pool sizes on both sides of the thresholds of lines 225-236
PoolSizes == {19, 20, 24, 25, 29, 30, MaxPool}

LongCatalogs ==
    { Cycled(CycleWithHotel, n) : n \in PoolSizes }
    \cup { Cycled(CycleNoHotel, MaxPool), Cycled(TouristOnly, 10) }

Request(city, country, start_time, end_time, theme) ==
    [city |-> city, country |-> country, start_time |-> start_time,
     end_time |-> end_time, theme |-> theme]

DayTimes ==
    { <<"09:00", "22:00">>, <<"10:00", "10:00">>, <<"08:15", "23:45">>,
      <<"9:00", "10:00">>, <<"09:00", "25:00">> }

SmallRequests ==
    { Request("Cairo", "Egypt", t[1], t[2], theme) :
        t \in DayTimes, theme \in {None, "couples"} }
    \cup { Request("Atlantis", "Nowhere", "09:00", "22:00", None),
            Request(None, None, "09:00", "22:00", None),
            Request("Cairo", None, "09:00", "22:00", None) }

LongRequests == { Request("cairo", "EGYPT", "09:00", "22:00", "cultural") }

\* POST /itinerary: one build_itinerary call (app.py lines 180-188)
BuildItineraryCall ==
    \E db_ok \in IF data_initialized THEN {TRUE} ELSE BOOLEAN :
        \E r \in {BuildItinerary(CurrentIndex, data_initialized, it_in.city, it_in.country,
                                 it_in.start_time, it_in.end_time, it_in.theme, db_ok)} :
            /\ SetIndex(r.ix)
            /\ data_initialized' = r.initialized
            /\ loads' = IF r.load = "ok" THEN loads + 1 ELSE loads
            /\ it_out' = [op |-> IF r.raised THEN "raised" ELSE "returned",
                          load |-> r.load, result |-> r.result,
                          candidates |-> r.candidates, selected |-> r.selected]
            /\ UNCHANGED <<rows, call, it_in, scVars, genVars, ingVars>>

InitItin ==
    /\ \E s \in (SmallCatalogs \X SmallRequests) \cup (LongCatalogs \X LongRequests) :
           rows = s[1] /\ it_in = s[2]
    /\ NewIndex
    /\ ScoreIdle /\ GenIdle /\ IngestIdle
    /\ data_initialized = FALSE
    /\ it_out = Pending

\* GET /locations is InitializeData (app.py lines 138-148)
NextItin == BuildItineraryCall \/ InitializeData

SpecItin == InitItin /\ [][NextItin]_vars

Spec == SpecItin

(***************************************************************************)
(* Properties of build_itinerary.                                          *)
(***************************************************************************)
\* a build_itinerary call whose location resolved to at least one POI has returned
Resolved == it_out.op = "returned" /\ it_out.candidates # <<>>

\* the places of the returned itinerary, all days taken together, as <<day, slot>>
PlacesOf(days) == UNION { { <<d, k>> : k \in DOMAIN days[d].places } : d \in DOMAIN days }

HotelPlaces ==
    LET days == it_out.result.days
    IN  { p \in PlacesOf(days) : days[p[1]].places[p[2]].category = "hotel" }

\* every selected place got its slot
AllPlaced ==
    Cardinality(PlacesOf(it_out.result.days)) = it_out.result.days_count * PerDay

\* C1: whenever the location resolves to at least one POI, the places of the
\* returned itinerary hold exactly one item of category 'hotel': a real hotel
\* candidate when the pool has one, otherwise the placeholder with poi_id -1.
\* Stated for the itineraries in which every selected place got its slot.
C1_ExactlyOneHotel ==
    (Resolved /\ AllPlaced) =>
        /\ Cardinality(HotelPlaces) = 1
        /\ \A p \in HotelPlaces :
              (it_out.result.days[p[1]].places[p[2]].id = -1)
                  <=> ~(\E i \in DOMAIN it_out.candidates : IsHotel(it_out.candidates[i]))

\* C3: whenever the location resolves to at least one POI and the times are
\* accepted as HH:MM, the result has len(days) = days_count and every day
\* holds exactly per_day = 5 places.
C3_FivePlacesEveryDay ==
    Resolved =>
        /\ Len(it_out.result.days) = it_out.result.days_count
        /\ \A d \in DOMAIN it_out.result.days :
              Len(it_out.result.days[d].places) = PerDay

\* C4: days_count is a function of the candidate pool size n alone: n >= 30
\* gives 6, 25..29 gives 5, 20..24 gives 4 and 1..19 gives 3.
C4_DaysCountByPoolSize ==
    Resolved =>
        LET n == Len(it_out.candidates)
            days_count == it_out.result.days_count
        IN  /\ n >= 30 => days_count = 6
            /\ (25 <= n /\ n <= 29) => days_count = 5
            /\ (20 <= n /\ n <= 24) => days_count = 4
            /\ (1 <= n /\ n <= 19) => days_count = 3

\* a returned itinerary of 5 days over a pool of exactly 25 candidates
C4_Witness ==
    /\ Resolved
    /\ Len(it_out.candidates) = 25
    /\ it_out.result.days_count = 5

\* a build_itinerary call has ended, by a return or by an exception
Ended == it_out.op \in {"returned", "raised"}

\* C15: when the location index (loaded) resolves no POI for the requested
\* city and country, build_itinerary returns without raising a result with
\* days_count 0, no days, and the short_description 'No places found for
\* <city>, <country>'.
C15_NoPoiZeroDays ==
    (/\ Ended
     /\ it_out.load # "failed"
     /\ it_in.city # None /\ it_in.country # None
     /\ FindStage(CurrentIndex, it_in.city, it_in.country).pois = <<>>) =>
        /\ it_out.op = "returned"
        /\ it_out.result.days_count = 0
        /\ it_out.result.days = <<>>
        /\ it_out.result.short_description
               = "No places found for " \o it_in.city \o ", " \o it_in.country

\* C15's case: a catalog with POIs, none of them for the requested location
C15_Witness ==
    /\ it_out.op = "returned"
    /\ all_pois # <<>>
    /\ it_in.city = "Atlantis"
    /\ it_out.result.days_count = 0

\* C16: build_itinerary never raises, whatever arguments of its signature
\* it is given, city and country left at None included.
C16_NeverRaises == it_out.op # "raised"

\* the candidates of the pool of category 'hotel'
PoolHotels == {i \in DOMAIN it_out.candidates : IsHotel(it_out.candidates[i])}

\* start_time is before end_time
StartBeforeEnd ==
    /\ Strptime(it_in.start_time) # ParseError /\ Strptime(it_in.end_time) # ParseError
    /\ Strptime(it_in.start_time) < Strptime(it_in.end_time)

\* C19: for a non-empty pool and start_time before end_time the first place
\* of day 1 has category 'hotel': a highest-scored hotel candidate when the
\* pool has a hotel, the placeholder (id -1, 'Hotel check-in / rest') if and
\* only if it has none; with 10 candidates, all 'tourist place', the
\* itinerary holds the placeholder first and exactly 15 places.
C19_HotelOpensDayOne ==
    (Resolved /\ StartBeforeEnd) =>
        LET first == it_out.result.days[1].places[1]
            pool == it_out.candidates
        IN  /\ first.category = "hotel"
            /\ PoolHotels # {} =>
                  \E i \in PoolHotels :
                      /\ pool[i].poi_id = first.id /\ pool[i].name = first.name
                      /\ \A j \in PoolHotels : pool[j].score <= pool[i].score
            /\ (first.id = -1 /\ first.name = "Hotel check-in / rest") <=> PoolHotels = {}
            /\ (Len(pool) = 10 /\ \A i \in DOMAIN pool : pool[i].type = "tourist place") =>
                  /\ first.id = -1
                  /\ Cardinality(PlacesOf(it_out.result.days)) = 15

\* C19's case: the pool of 10 tourist places, opened by the placeholder
C19_Witness ==
    /\ Resolved /\ StartBeforeEnd
    /\ Len(it_out.candidates) = 10
    /\ \A i \in DOMAIN it_out.candidates : it_out.candidates[i].type = "tourist place"
    /\ it_out.result.days[1].places[1].id = -1

\* C25: over any sequence of build_itinerary calls, while no initialisation
\* has succeeded each call attempts initialize_data, a failed attempt returns
\* a zero-day result with short_description 'Failed to load data' and leaves
\* the flag unset, and once an attempt has succeeded the flag stays set and
\* no later build_itinerary call invokes initialize_data again.
C25_InitFlagProtocol ==
    [][/\ data_initialized => data_initialized'
       /\ it_out' # it_out =>
             /\ ~data_initialized => it_out'.load \in {"failed", "ok"}
             /\ it_out'.load = "failed" =>
                   /\ ~data_initialized'
                   /\ it_out'.op = "returned"
                   /\ it_out'.result.days_count = 0
                   /\ it_out'.result.short_description = "Failed to load data"
                   /\ it_out'.result.days = <<>>
             /\ it_out'.load = "ok" => data_initialized'
             /\ data_initialized => (it_out'.load = "no" /\ loads' = loads)]_vars

\* C25's case: a call made after the initialisation had succeeded
C25_Witness ==
    /\ data_initialized
    /\ it_out.op = "returned"
    /\ it_out.load = "no"

\* the place at <<day, slot>> of the returned itinerary
PlaceAt(p) == it_out.result.days[p[1]].places[p[2]]

\* <<day, slot>> p is before q in day-and-slot order
Before(p, q) == p[1] < q[1] \/ (p[1] = q[1] /\ p[2] < q[2])

\* the list select_with_hotel gave the call, sorted hotel first (lines 242-243)
Picked ==
    SelectWithHotel(it_out.candidates, it_out.result.days_count * PerDay, it_in.theme)

DistinctIds ==
    \A i \in DOMAIN it_out.candidates : \A j \in DOMAIN it_out.candidates :
        it_out.candidates[i].poi_id = it_out.candidates[j].poi_id => i = j

\* C28: when the POIs resolved for the location have pairwise distinct
\* poi_ids, every poi_id >= 0 occurs in at most one place of the returned
\* itinerary, across all days, the places appended by underfill included.
C28_NoPoiScheduledTwice ==
    (Resolved /\ DistinctIds) =>
        \A p \in PlacesOf(it_out.result.days) : \A q \in PlacesOf(it_out.result.days) :
            (PlaceAt(p).id >= 0 /\ PlaceAt(p).id = PlaceAt(q).id) => p = q

\* C28's case: an itinerary of several days whose last day holds a candidate
\* appended by underfill
C28_Witness ==
    /\ Resolved /\ DistinctIds
    /\ it_out.result.days_count >= 2
    /\ \E p \in PlacesOf(it_out.result.days) :
          /\ p[1] = it_out.result.days_count
          /\ PlaceAt(p).id >= 0
          /\ \A k \in DOMAIN Picked : Picked[k].poi_id # PlaceAt(p).id

\* C23: the sequence build_itinerary cuts into days is sorted anchor first,
\* then descending score: the hotel comes first and the scores of the places
\* after it are non-increasing, the places appended by underfill included.
C23_HotelThenDescendingScore ==
    Resolved =>
        /\ it_out.selected[1].type = "hotel"
        /\ \A k \in 2..(Len(it_out.selected) - 1) :
              it_out.selected[k].score >= it_out.selected[k + 1].score

(***************************************************************************)
(* select_with_hotel and build_time_slots called on their own: Init draws  *)
(* the arguments, the action applies the function.                         *)
(***************************************************************************)
\* the longest candidate list, the largest plan_size and the largest n
MaxList == 4
MaxPlan == 4
MaxSlots == 6

\* a candidate as lines 205-214 build it
Cand(type, score, themes) ==
    [name |-> "Place", type |-> type, description |-> "", themes |-> themes,
     score |-> score, city |-> "Cairo", country |-> "Egypt"]

\* two hotels, two tourist places, a restaurant and a place of no known
\* category, plain (1.0) or boosted for the theme (1.25)
CandShapes ==
    { Cand("hotel", 100, <<>>), Cand("hotel", 125, <<"couples">>),
      Cand("tourist place", 100, <<"cultural">>), Cand("tourist place", 125, <<>>),
      Cand("restaurant", 100, <<"foodies">>), Cand("other", 100, <<>>) }

\* candidate lists: candidates[i] has poi_id i
CandLists ==
    UNION { { List([i \in 1..n |-> shapes[i] @@ [poi_id |-> i]]) :
                shapes \in [1..n -> CandShapes] } : n \in 0..MaxList }

SelectCalls ==
    { [op |-> "select_with_hotel", candidates |-> cs, plan_size |-> k, theme |-> th] :
        cs \in CandLists, k \in 0..MaxPlan, th \in {None, "cultural"} }

\* times of day on and off the half hours, the last ones within the final
\* half hour of the day
TimesOfDay ==
    {"00:00", "08:15", "09:00", "09:30", "09:31", "12:29", "23:00", "23:31", "23:59"}

TimeSlotCalls ==
    { [op |-> "build_time_slots", start_time |-> s, end_time |-> e, n |-> n] :
        s \in TimesOfDay, e \in TimesOfDay, n \in 0..MaxSlots }

\* texts with keywords in either case, inside longer words, and without any
ThemeTexts ==
    {"", "xyz", "Grand MUSEUM", "Street Food", "street", "Sunset Bar and Spa",
     "carpark", "museum beach cafe zoo resort club"}

ClassifyCalls == { [op |-> "classify_theme_text", text |-> t] : t \in ThemeTexts }

\* POIs as find_pois_for_location returns them, and the themes requested
CandidatePois ==
    { [poi_id |-> 1, name |-> name, type |-> type, description |-> desc,
       city |-> "Cairo", country |-> "Egypt"] :
        type \in {"Beach Resort", "Museum", "cafe", "other", "Tourist attraction"},
        name \in {"Unknown", "Sunset Point"},
        desc \in {"", "Historic"} }

CandidateCalls ==
    { [op |-> "candidate", poi_data |-> p, theme |-> th] :
        p \in CandidatePois,
        th \in {None, "", "cultural", "couples", "foodies", "Cultural", "nightlife"} }

\* a select_with_hotel call; `selected` is the list the loop of lines 74-87 left
SelectWithHotelCall ==
    /\ it_in.op = "select_with_hotel" /\ it_out.op = "pending"
    /\ \E plan_size \in {IF it_in.plan_size < 2 THEN 2 ELSE it_in.plan_size} :
          it_out' = [op |-> "returned",
                     value |-> SelectWithHotel(it_in.candidates, it_in.plan_size,
                                               it_in.theme),
                     selected |-> SelectedAfterLoop(
                                      it_in.candidates,
                                      ByScore(SelectSeq(it_in.candidates, IsHotel)),
                                      plan_size, it_in.theme)]
    /\ UNCHANGED <<it_in, data_initialized, idxVars, scVars, genVars, ingVars>>

\* a build_time_slots call
BuildTimeSlotsCall ==
    /\ it_in.op = "build_time_slots" /\ it_out.op = "pending"
    /\ \E r \in {BuildTimeSlots(it_in.start_time, it_in.end_time, it_in.n)} :
          it_out' = IF r.raised THEN [op |-> "raised"] ELSE Return(r.slots)
    /\ UNCHANGED <<it_in, data_initialized, idxVars, scVars, genVars, ingVars>>

\* a classify_theme_text call
ClassifyThemeTextCall ==
    /\ it_in.op = "classify_theme_text" /\ it_out.op = "pending"
    /\ it_out' = Return(ClassifyThemeText(it_in.text))
    /\ UNCHANGED <<it_in, data_initialized, idxVars, scVars, genVars, ingVars>>

\* one round of the loop of lines 196-214: the candidate made of a POI
CandidateCall ==
    /\ it_in.op = "candidate" /\ it_out.op = "pending"
    /\ it_out' = Return(Candidate(it_in.poi_data, it_in.theme))
    /\ UNCHANGED <<it_in, data_initialized, idxVars, scVars, genVars, ingVars>>

InitParts ==
    /\ IndexIdle /\ ScoreIdle /\ GenIdle /\ IngestIdle
    /\ data_initialized = FALSE
    /\ it_in \in SelectCalls \cup TimeSlotCalls \cup ClassifyCalls \cup CandidateCalls
    /\ it_out = Pending

NextParts ==
    \/ SelectWithHotelCall
    \/ BuildTimeSlotsCall
    \/ ClassifyThemeTextCall
    \/ CandidateCall

SpecParts == InitParts /\ [][NextParts]_vars

(***************************************************************************)
(* Properties of build_time_slots (checked under SpecParts).               *)
(***************************************************************************)
\* a build_time_slots call that returned
Tiled == it_in.op = "build_time_slots" /\ it_out.op = "returned"

\* a time string as minutes of the day
MinuteOfDay(s) == 60 * NumVal(SubSeq(s, 1, 2)) + NumVal(SubSeq(s, 4, 5))

\* the half hour at or below, and at or above, a minute
HalfHourBelow(t) == 30 * (t \div 30)
HalfHourAbove(t) == 30 * ((t + 29) \div 30)

\* C13: with n >= 1 and the snapped start before the snapped end,
\* build_time_slots returns exactly n slots: the first starts at the start
\* snapped down to the half hour, each starts where the previous one ends,
\* and the last ends at the end snapped up to the half hour.
C13_SlotsTileTheDay ==
    (/\ Tiled
     /\ it_in.n >= 1
     /\ HalfHourBelow(MinuteOfDay(it_in.start_time))
            < HalfHourAbove(MinuteOfDay(it_in.end_time))) =>
        LET slots == it_out.value
        IN  /\ Len(slots) = it_in.n
            /\ MinuteOfDay(slots[1][1]) = HalfHourBelow(MinuteOfDay(it_in.start_time))
            /\ \A k \in 1..(Len(slots) - 1) : slots[k + 1][1] = slots[k][2]
            /\ MinuteOfDay(slots[Len(slots)][2])
                   = HalfHourAbove(MinuteOfDay(it_in.end_time)) % 1440

\* C13's case: both times off the half hour, and several slots of which the
\* last is a padded one
C13_Witness ==
    /\ Tiled
    /\ it_in.start_time = "08:15" /\ it_in.end_time = "09:31"
    /\ it_in.n = 5
    /\ Len(it_out.value) = 5
    /\ it_out.value[5] = <<"10:00", "10:00">>

\* C14: for every valid start_time and end_time and every n >= 1, every
\* returned string has minutes 00 or 30, and read as times of day each slot's
\* start <= its end <= the next slot's start.
C14_SlotsOrderedInTheDay ==
    (Tiled /\ it_in.n >= 1) =>
        LET slots == it_out.value
        IN  /\ \A k \in DOMAIN slots : \A j \in 1..2 :
                  MinuteOfDay(slots[k][j]) % 60 \in {0, 30}
            /\ \A k \in DOMAIN slots :
                  MinuteOfDay(slots[k][1]) <= MinuteOfDay(slots[k][2])
            /\ \A k \in 1..(Len(slots) - 1) :
                  MinuteOfDay(slots[k][2]) <= MinuteOfDay(slots[k + 1][1])

\* the snapped day length T and the step of lines 128-138 for the call
DayLength ==
    LET t == HalfHourAbove(MinuteOfDay(it_in.end_time))
                 - HalfHourBelow(MinuteOfDay(it_in.start_time))
    IN  IF t > 0 THEN t ELSE 0

StepOf(n) ==
    LET rounded == 30 * CeilDiv(CeilDiv(DayLength, n), 30)
    IN  IF rounded > 30 THEN rounded ELSE 30

\* minutes on the clock from a slot's start to its end
Duration(slot) == (MinuteOfDay(slot[2]) - MinuteOfDay(slot[1])) % 1440

RECURSIVE TotalDuration(_)
TotalDuration(slots) ==
    IF slots = <<>> THEN 0 ELSE Duration(Head(slots)) + TotalDuration(Tail(slots))

\* C24: with T the snapped day length and step = max(30, ceil(ceil(T/n)/30)*30)
\* the slot durations sum to exactly T: every slot before the one that
\* reaches the day end lasts exactly step minutes, the slot that reaches the
\* day end lasts at most step minutes and more than 0, every slot after it
\* has zero width at the end time, and no slot is longer than step.
C24_DurationsSumToDayLength ==
    (Tiled /\ it_in.n >= 1 /\ DayLength > 0) =>
        LET slots == it_out.value
            step == StepOf(it_in.n)
            day_end == HalfHourAbove(MinuteOfDay(it_in.end_time)) % 1440
            Reaches(k) == MinuteOfDay(slots[k][2]) = day_end
        IN  /\ TotalDuration(slots) = DayLength
            /\ \A k \in DOMAIN slots : Duration(slots[k]) <= step
            /\ \E r \in DOMAIN slots :
                  /\ Reaches(r)
                  /\ \A k \in 1..(r - 1) : ~Reaches(k) /\ Duration(slots[k]) = step
                  /\ Duration(slots[r]) > 0
                  /\ \A k \in (r + 1)..Len(slots) :
                        /\ MinuteOfDay(slots[k][1]) = day_end
                        /\ MinuteOfDay(slots[k][2]) = day_end

(***************************************************************************)
(* Properties of classify_theme_text and of the candidates (SpecParts).    *)
(***************************************************************************)
\* kw occurs in text at position i whatever the case of the text's letters
OccursAt(kw, text, i) ==
    /\ i + Len(kw) - 1 <= Len(text)
    /\ \A j \in 1..Len(kw) : LowerChar(SubSeq(text, i + j - 1, i + j - 1)) = SubSeq(kw, j, j)

\* the themes of which a keyword occurs in the text
Hits(text) ==
    { ThemeNames[t] : t \in { u \in DOMAIN ThemeNames :
          \E k \in DOMAIN TOUR_THEMES[ThemeNames[u]].keywords :
              \E i \in 1..Len(text) :
                  OccursAt(TOUR_THEMES[ThemeNames[u]].keywords[k], text, i) } }

\* the text build_itinerary classifies for the candidate c
TextOf(c) == c.type \o " " \o c.name \o " " \o c.description

\* C26: classify_theme_text returns exactly the themes of which at least one
\* keyword occurs in the text as a case-insensitive substring (none for the
\* empty text), and a candidate's score is 1.0 + boost(theme) if and only if
\* a theme is requested and classify_theme_text returns it for the text
\* '<normalized type> <name> <description>'; every other score is 1.0.
C26_ThemesAndBoost ==
    /\ (it_in.op = "classify_theme_text" /\ it_out.op = "returned") =>
          /\ Range(it_out.value) = Hits(it_in.text)
          /\ it_in.text = "" => it_out.value = <<>>
    /\ (it_in.op = "candidate" /\ it_out.op = "returned") =>
          LET c == it_out.value
              boosted == Truthy(it_in.theme) /\ it_in.theme \in Hits(TextOf(c))
          IN  /\ c.type = NormalizeCategory(it_in.poi_data.type)
              /\ Range(c.themes) = Hits(TextOf(c))
              /\ boosted => c.score = 100 + TOUR_THEMES[it_in.theme].boost
              /\ ~boosted => c.score = 100

\* C26's case: a candidate boosted through a keyword written with a capital
C26_Witness ==
    /\ it_in.op = "candidate" /\ it_out.op = "returned"
    /\ it_in.theme = "cultural"
    /\ it_in.poi_data.description = "Historic"
    /\ it_out.value.score = 125

(***************************************************************************)
(* The categories of an itinerary (checked under SpecItin).                *)
(***************************************************************************)
\* the keyword groups in the order normalize_category tries them
CategoryGroups ==
    <<[category |-> "hotel", keywords |-> <<"hotel", "resort", "hostel", "inn", "lodg">>],
      [category |-> "restaurant",
       keywords |-> <<"restaurant", "cafe", "bar", "pub", "food", "eat">>],
      [category |-> "shop",
       keywords |-> <<"shop", "mall", "market", "store", "boutique", "bazaar">>],
      [category |-> "tourist place",
       keywords |-> <<"museum", "nature", "beach", "park", "tourist", "monument",
                      "landmark", "viewpoint", "temple", "mosque", "church", "castle">>],
      [category |-> "entertainment", keywords |-> <<"club", "entertainment", "nightlife">>]>>

Categories == {CategoryGroups[g].category : g \in DOMAIN CategoryGroups} \cup {"other"}

\* the groups of which a keyword occurs in the raw type
GroupsMatching(raw_type) ==
    { g \in DOMAIN CategoryGroups :
        \E k \in DOMAIN CategoryGroups[g].keywords : \E i \in 1..Len(raw_type) :
            OccursAt(CategoryGroups[g].keywords[k], raw_type, i) }

\* the category of the first group matching, 'other' when none does
FirstGroup(raw_type) ==
    IF GroupsMatching(raw_type) = {} THEN "other"
    ELSE CategoryGroups[SetMin(GroupsMatching(raw_type))].category

\* the type of a catalog row as text, a missing type being empty
RawType(row) == IF row.type = None THEN "" ELSE row.type

\* C27: normalize_category maps every raw type to exactly one of hotel,
\* restaurant, shop, tourist place, entertainment and other, 'other' for an
\* empty or unmatched raw type, the first matching group winning; so every
\* place of an itinerary has a category of that set or 'free time'.
C27_CategoriesOfPlaces ==
    Resolved =>
        /\ \A i \in DOMAIN it_out.candidates :
              /\ it_out.candidates[i].type \in Categories
              /\ \A r \in DOMAIN rows :
                    rows[r].id = it_out.candidates[i].poi_id =>
                        it_out.candidates[i].type = FirstGroup(RawType(rows[r]))
        /\ \A p \in PlacesOf(it_out.result.days) :
              PlaceAt(p).category \in Categories \cup {"free time"}

\* C27's case: an itinerary with a filler and with a candidate whose raw type
\* matches two groups
C27_Witness ==
    /\ Resolved
    /\ \E p \in PlacesOf(it_out.result.days) : PlaceAt(p).category = "free time"
    /\ \E i \in DOMAIN it_out.candidates : \E r \in DOMAIN rows :
          /\ rows[r].id = it_out.candidates[i].poi_id
          /\ Cardinality(GroupsMatching(RawType(rows[r]))) = 2
          /\ it_out.candidates[i].type = "hotel"

(***************************************************************************)
(* Properties of select_with_hotel (checked under SpecParts).              *)
(***************************************************************************)
\* a select_with_hotel call that returned
Selected == it_in.op = "select_with_hotel" /\ it_out.op = "returned"

\* max(plan_size, 2)
PlanSizeUsed == IF it_in.plan_size > 2 THEN it_in.plan_size ELSE 2

\* the positions of list that hold an item of the category
OfCategory(list, category) == {k \in DOMAIN list : list[k].type = category}

\* C18: for every candidate list, the empty one included, and every
\* plan_size, select_with_hotel returns at most max(plan_size, 2) items, of
\* which exactly one has type 'hotel', and that one is at index 0.
C18_OneHotelFirst ==
    Selected =>
        /\ Len(it_out.value) <= PlanSizeUsed
        /\ OfCategory(it_out.value, "hotel") = {1}

\* C18's case: a list with two hotels, of which one is returned
C18_Witness ==
    /\ Selected
    /\ Cardinality(OfCategory(it_in.candidates, "hotel")) = 2
    /\ Cardinality(OfCategory(it_out.selected, "hotel")) = 2
    /\ OfCategory(it_out.value, "hotel") = {1}

\* C20: the returned list holds at most two items of any one category, and
\* while fewer than plan_size items are selected a candidate whose category
\* is not yet represented is always added: the loop leaves a category of
\* the candidates out only when it has selected plan_size items.
C20_TwoPerCategory ==
    Selected =>
        /\ \A k \in DOMAIN it_out.value :
              Cardinality(OfCategory(it_out.value, it_out.value[k].type)) <= 2
        /\ \A i \in DOMAIN it_in.candidates :
              OfCategory(it_out.selected, it_in.candidates[i].type) = {} =>
                  Len(it_out.selected) >= PlanSizeUsed

\* C20's case: three candidates of one category, two of them returned in a
\* list that is not full
C20_Witness ==
    /\ Selected
    /\ Cardinality(OfCategory(it_in.candidates, "tourist place")) = 3
    /\ Cardinality(OfCategory(it_out.value, "tourist place")) = 2
    /\ Len(it_out.selected) < PlanSizeUsed
    /\ \E i \in DOMAIN it_in.candidates : it_in.candidates[i].type = "other"

\* the poi_ids of the returned list
ReturnedIds == {it_out.value[k].poi_id : k \in DOMAIN it_out.value}

\* the candidate carries the requested theme tag
Themed(c) == it_in.theme \in Range(c.themes)

\* C21: theme match takes priority over score in the diverse fill: for every
\* non-hotel category, the returned list never holds a candidate without the
\* requested theme tag while a candidate of the same category that carries
\* the tag is left out, whatever their scores.
C21_ThemeBeforeScore ==
    (Selected /\ it_in.theme # None) =>
        \A i \in DOMAIN it_in.candidates : \A j \in DOMAIN it_in.candidates :
            (/\ it_in.candidates[i].type = it_in.candidates[j].type
             /\ it_in.candidates[i].type # "hotel"
             /\ Themed(it_in.candidates[i]) /\ ~Themed(it_in.candidates[j])
             /\ it_in.candidates[j].poi_id \in ReturnedIds) =>
                it_in.candidates[i].poi_id \in ReturnedIds

\* C21's case: a themed candidate returned and a higher-scored one of the
\* same category, without the theme, left out
C21_Witness ==
    /\ Selected /\ it_in.theme # None
    /\ \E i \in DOMAIN it_in.candidates : \E j \in DOMAIN it_in.candidates :
          /\ it_in.candidates[i].type = it_in.candidates[j].type
          /\ Themed(it_in.candidates[i]) /\ ~Themed(it_in.candidates[j])
          /\ it_in.candidates[i].score < it_in.candidates[j].score
          /\ it_in.candidates[i].poi_id \in ReturnedIds
          /\ it_in.candidates[j].poi_id \notin ReturnedIds

(***************************************************************************)
(* The candidate generators, Candidates.py.  The pois table is `rows`,     *)
(* with the columns the generators select.  An embedding is a vector of    *)
(* two integers, a similarity an integer number of hundredths, a distance  *)
(* an integer number of kilometres.                                        *)
(***************************************************************************)
\* what a call that raised left
Raised == [op |-> "raised"]

\* the database file as a call finds it: with its tables; without them
\* (sqlite3.connect creates a missing file, the first execute raises
\* OperationalError); or not to be opened (sqlite3.connect raises)
DbStates == {"ok", "no table", "cannot open"}

\* model.encode([query]) (line 66): the vector of a query
Encode(query) ==
    CASE query = "beach" -> <<1, 0>>
      [] query = "museum" -> <<0, 1>>
      [] OTHER -> <<3, 4>>

Dot(a, b) == a[1] * b[1] + a[2] * b[2]

Norm(v) == CHOOSE n \in 0..Dot(v, v) : n * n = Dot(v, v)

\* cosine_similarity(query_vec, [emb])[0][0] (line 76), in hundredths
CosineSimilarity(a, b) == (100 * Dot(a, b)) \div (Norm(a) * Norm(b))

\* geodesic(a, b).km (line 107) for two points of one meridian: 111 km to
\* the degree of latitude
GeodesicKm(a, b) == 111 * Abs(a[1] - b[1])

\* list[:k]
HeadSlice(s, k) == IF k >= 0 THEN Take(s, k) ELSE Take(s, IF Len(s) + k > 0 THEN Len(s) + k ELSE 0)

\* the rows of a query with LIMIT k: a negative k is no limit
SqlLimit(s, k) == IF k < 0 THEN s ELSE Take(s, k)

\* enrich_with_metadata (lines 42-55) for one id: meta.get(id, {})
MetaOf(pois, id) ==
    IF \E i \in DOMAIN pois : pois[i].id = id
    THEN LET r == pois[CHOOSE i \in DOMAIN pois : pois[i].id = id]
         IN  [city |-> r.city_name, country |-> r.country_name, type |-> r.type]
    ELSE <<>>

\* r.update(meta.get(r["poi_id"], {})) (lines 81-82, 130-131)
Enriched(results, pois) ==
    List([i \in DOMAIN results |->
             IF DOMAIN MetaOf(pois, results[i].poi_id) = {} THEN results[i]
             ELSE MetaOf(pois, results[i].poi_id) @@ results[i]])

\* lines 73-77
Similarities(embs, query_vec) ==
    List([i \in DOMAIN embs |->
             [poi_id |-> embs[i].poi_id,
              semantic |-> CosineSimilarity(query_vec, embs[i].vector)]])

\* the optional filters of lines 85-88
FilteredBy(results, country, city) ==
    LET InCountry(r) ==
            ~Truthy(country) \/ Lower(OrElse(Get(r, "country", None), "")) = Lower(country)
        InCity(r) ==
            ~Truthy(city) \/ Lower(OrElse(Get(r, "city", None), "")) = Lower(city)
    IN  SelectSeq(SelectSeq(results, InCountry), InCity)

\* sorted(results, key=semantic, reverse=True) (line 90)
BySemantic(results) ==
    SortByKeys(results, [i \in DOMAIN results |-> <<0 - results[i].semantic>>])

\* get_candidates (lines 58-90); m is the module's model
GetCandidates(m, pois, embs, db, query, country, city, k) ==
    IF m = None THEN Return(<<>>)
    ELSE IF db # "ok" THEN Raised
    ELSE Return(HeadSlice(
             BySemantic(FilteredBy(Enriched(Similarities(embs, Encode(query)), pois),
                                   country, city)),
             k))

\* a latitude or longitude column: NULL, or a number of degrees
Null == [null |-> TRUE]
Deg(n) == [null |-> FALSE, deg |-> n]

\* lines 105-115
WithinRadius(pois, lat, lon, radius_km) ==
    LET Located(r) == r.latitude # Null /\ r.longitude # Null
        Dist(r) == GeodesicKm(<<lat, lon>>, <<r.latitude.deg, r.longitude.deg>>)
        Near(r) == Dist(r) <= radius_km
        near == SelectSeq(SelectSeq(pois, Located), Near)
    IN  List([i \in DOMAIN near |->
                 [poi_id |-> near[i].id, distance_km |-> Dist(near[i]),
                  city |-> near[i].city_name, country |-> near[i].country_name,
                  type |-> near[i].type]])

\* sorted(results, key=distance_km) (line 117)
ByDistance(results) ==
    SortByKeys(results, [i \in DOMAIN results |-> <<results[i].distance_km>>])

\* geo_candidates (lines 93-117)
GeoCandidates(pois, db, lat, lon, radius_km, k) ==
    IF db # "ok" THEN Raised
    ELSE Return(HeadSlice(ByDistance(WithinRadius(pois, lat, lon, radius_km)), k))

\* SELECT id FROM pois ORDER BY id ASC LIMIT k, ranked (lines 124-128)
Ranked(pois, k) ==
    LET ids == SqlLimit(SortByKeys(pois, [i \in DOMAIN pois |-> <<pois[i].id>>]), k)
    IN  List([i \in DOMAIN ids |-> [poi_id |-> ids[i].id, rank |-> i]])

\* popularity_candidates (lines 120-132)
PopularityCandidates(pois, db, k) ==
    IF db # "ok" THEN Raised ELSE Return(Enriched(Ranked(pois, k), pois))

(***************************************************************************)
(* The calls of the generators: Init draws the tables, the model and the   *)
(* arguments, the action applies the generator to the database as the call *)
(* finds it.                                                               *)
(***************************************************************************)
\* the longest pois table and the largest k
MaxGen == 4
MaxK == 2

GeoRow(id, latitude, longitude, city, country, type) ==
    [id |-> id, latitude |-> latitude, longitude |-> longitude,
     city_name |-> city, country_name |-> country, type |-> type]

\* two POIs at one spot, one two degrees north, one without coordinates
GenPois ==
    <<GeoRow(1, Deg(28), Deg(34), "Dahab", "Egypt", "beach"),
      GeoRow(2, Deg(28), Deg(34), "Dahab", "Egypt", "Hotel"),
      GeoRow(3, Deg(30), Deg(34), "Cairo", "Egypt", "museum"),
      GeoRow(4, Null, Null, None, None, None)>>

GenCatalogs == { Take(GenPois, n) : n \in 0..MaxGen }

\* the embeddings of the POIs, and one of an id the pois table lacks
GenEmbeddings ==
    <<[poi_id |-> 1, vector |-> <<1, 0>>], [poi_id |-> 2, vector |-> <<3, 4>>],
      [poi_id |-> 3, vector |-> <<0, 1>>], [poi_id |-> 4, vector |-> <<-1, 0>>],
      [poi_id |-> 9, vector |-> <<4, 3>>]>>

EmbeddingTables == { Take(GenEmbeddings, n) : n \in {0, 3, 5} }

GenCalls ==
    { [op |-> "get_candidates", query |-> q, country |-> co, city |-> ci, k |-> k] :
        q \in {"beach", "museum"}, co \in {None, "egypt"}, ci \in {None, "DAHAB"},
        k \in -1..MaxK }
    \cup { [op |-> "geo_candidates", lat |-> lat, lon |-> 34, radius_km |-> r, k |-> k] :
             lat \in {28, 29}, r \in {5, 150}, k \in -1..MaxK }
    \cup { [op |-> "popularity_candidates", k |-> k] : k \in -1..MaxK }

GetCandidatesCall ==
    /\ gen_in.op = "get_candidates" /\ gen_out.op = "pending"
    /\ \E db \in DbStates :
          gen_out' = GetCandidates(model, rows, poi_embeddings, db, gen_in.query,
                                   gen_in.country, gen_in.city, gen_in.k)
                     @@ [db |-> db]
    /\ UNCHANGED <<model, poi_embeddings, gen_in, idxVars, scVars, itVars, ingVars>>

GeoCandidatesCall ==
    /\ gen_in.op = "geo_candidates" /\ gen_out.op = "pending"
    /\ \E db \in DbStates :
          gen_out' = GeoCandidates(rows, db, gen_in.lat, gen_in.lon, gen_in.radius_km,
                                   gen_in.k)
                     @@ [db |-> db]
    /\ UNCHANGED <<model, poi_embeddings, gen_in, idxVars, scVars, itVars, ingVars>>

PopularityCandidatesCall ==
    /\ gen_in.op = "popularity_candidates" /\ gen_out.op = "pending"
    /\ \E db \in DbStates :
          gen_out' = PopularityCandidates(rows, db, gen_in.k) @@ [db |-> db]
    /\ UNCHANGED <<model, poi_embeddings, gen_in, idxVars, scVars, itVars, ingVars>>

InitGen ==
    /\ rows \in GenCatalogs
    /\ NewIndex /\ ScoreIdle /\ ItinIdle /\ IngestIdle
    /\ model \in {None, "paraphrase-multilingual-MiniLM-L12-v2"}
    /\ poi_embeddings \in EmbeddingTables
    /\ gen_in \in GenCalls
    /\ gen_out = Pending

NextGen == GetCandidatesCall \/ GeoCandidatesCall \/ PopularityCandidatesCall

SpecGen == InitGen /\ [][NextGen]_vars

\* a generator call has ended, by a return or by an exception
Generated == gen_out.op \in {"returned", "raised"}

\* the call's external dependency failed: the embedding model is not loaded
\* (get_candidates alone uses it), or the database cannot be opened or queried
DependencyFailed ==
    \/ gen_out.db # "ok"
    \/ gen_in.op = "get_candidates" /\ model = None

\* C17: a generator whose external dependency fails (the embedding model not
\* loaded, the database not to be opened or queried) returns an empty list
\* and does not raise.
C17_GeneratorsDegradeToEmpty ==
    (Generated /\ DependencyFailed) =>
        gen_out.op = "returned" /\ gen_out.value = <<>>

(***************************************************************************)
(* Ingestion (ingest.py): ingest_data(clear_existing=False) over the pages *)
(* the API returns.  A row of pois is [id, external_id], a row of          *)
(* poi_texts is [poi_id, lang]; the other columns take no part.            *)
(***************************************************************************)
\* an external_id that is not NULL
Id(n) == [null |-> FALSE, id |-> n]

\* the languages of line 217
Langs == <<"en", "ar", "sq">>

\* the values a language has in an item's "name" and "short_description":
\* text, or a JSON array, which sqlite3 cannot bind to a column
Text == "text"
Array == "array"

\* an item of a page: a JSON object with its "id" and, per language, the
\* kind of its name, or a JSON value that is no object
Item(id, name) == [object |-> TRUE, id |-> id, name |-> name]
NoObject == [object |-> FALSE]

\* the longest page the model follows
MaxItems == 2

ItemNames ==
    {[en |-> Text, ar |-> Text, sq |-> Text], [en |-> Text, ar |-> Array, sq |-> Text]}

Items == {Item(id, name) : id \in {Id(1), Id(2), Null}, name \in ItemNames} \cup {NoObject}

PagesUpTo(n) == UNION {[1..k -> Items] : k \in 0..n}

\* the pages of a run: one page, two pages of at most one item, or three
\* empty pages before a page with one item
PageLists ==
    {<<page>> : page \in PagesUpTo(MaxItems)}
    \cup {<<p, q>> : p \in PagesUpTo(1), q \in PagesUpTo(1)}
    \cup {<<<<>>, <<>>, <<>>, <<item>>>> : item \in Items}

\* the database inside the transaction of line 148
Db(pois_rows, text_rows) == [pois |-> pois_rows, texts |-> text_rows]

\* check_existing_poi (lines 63-71): `external_id == None` is IS NULL
CheckExistingPoi(db, external_id) ==
    \E i \in DOMAIN db.pois : db.pois[i].external_id = external_id

\* the inserts of lines 217-249 from language l on: a value that cannot be
\* bound raises a SQLAlchemyError, caught at line 253
RECURSIVE InsertTexts(_, _, _, _)
InsertTexts(db, item, poi_id, l) ==
    IF l > Len(Langs) \/ item.name[Langs[l]] = Array THEN db
    ELSE InsertTexts(Db(db.pois, Append(db.texts, [poi_id |-> poi_id, lang |-> Langs[l]])),
                     item, poi_id, l + 1)

\* one round of the loop of lines 187-255 on an object
IngestItem(db, item) ==
    IF CheckExistingPoi(db, item.id) THEN db
    ELSE LET poi_id == Len(db.pois) + 1
         IN  InsertTexts(Db(Append(db.pois, [id |-> poi_id, external_id |-> item.id]),
                            db.texts),
                         item, poi_id, 1)

\* the loop of lines 187-255 over a page; item.get of a value that is no
\* object raises AttributeError, which line 253 does not catch
RECURSIVE IngestPage(_, _)
IngestPage(db, page) ==
    IF page = <<>> THEN [db |-> db, raised |-> FALSE]
    ELSE IF ~Head(page).object THEN [db |-> db, raised |-> TRUE]
    ELSE IngestPage(IngestItem(db, Head(page)), Tail(page))

\* the loop of lines 155-258; after the last page fetch_page returns no data
RECURSIVE IngestPages(_, _, _)
IngestPages(db, pages, consecutive_empty_pages) ==
    IF pages = <<>> THEN [db |-> db, raised |-> FALSE]
    ELSE IF Head(pages) = <<>>
         THEN IF consecutive_empty_pages + 1 >= 3 THEN [db |-> db, raised |-> FALSE]
              ELSE IngestPages(db, Tail(pages), consecutive_empty_pages + 1)
    ELSE LET done == IngestPage(db, Head(pages))
         IN  IF done.raised THEN done ELSE IngestPages(done.db, Tail(pages), 0)

\* ingest_data(clear_existing=False) (lines 134-260): engine.begin() commits
\* when the block ends and rolls back when an exception leaves it
IngestData(db, pages) ==
    LET done == IngestPages(db, pages, 0)
    IN  IF done.raised THEN [db |-> db, raised |-> TRUE] ELSE done

\* an ingest_data run; the call keeps the pages and what was stored before
IngestDataCall ==
    \E pages \in PageLists :
        \E r \in {IngestData(Db(pois_table, poi_texts_table), pages)} :
            /\ pois_table' = r.db.pois
            /\ poi_texts_table' = r.db.texts
            /\ ing_call' = [op |-> "ingest_data", pages |-> pages, raised |-> r.raised,
                            pois_before |-> pois_table,
                            texts_before |-> poi_texts_table]
            /\ UNCHANGED <<idxVars, scVars, itVars, genVars>>

InitIngest == IndexIdle /\ ScoreIdle /\ ItinIdle /\ GenIdle /\ IngestIdle

NextIngest == IngestDataCall

SpecIngest == InitIngest /\ [][NextIngest]_vars

(***************************************************************************)
(* Properties of ingest_data (checked under SpecIngest).                   *)
(***************************************************************************)
\* the items of the last run
ItemsOf(pages) == UNION {Range(pages[p]) : p \in DOMAIN pages}

\* the rows of poi_texts of the POI with id poi_id
TextsOf(poi_id) == {k \in DOMAIN poi_texts_table : poi_texts_table[k].poi_id = poi_id}

\* every item of the run is an object whose id was stored before the run
AllStored ==
    \A item \in ItemsOf(ing_call.pages) :
        item.object /\ \E i \in DOMAIN ing_call.pois_before :
                           ing_call.pois_before[i].external_id = item.id

\* no two rows of pois share an external_id that is not NULL
UniqueExternalIds ==
    \A i \in DOMAIN pois_table : \A j \in DOMAIN pois_table :
        (pois_table[i].external_id # Null
         /\ pois_table[i].external_id = pois_table[j].external_id) => i = j

\* a run over records whose ids are all stored inserts no row
StoredIdsInsertNothing ==
    AllStored => (pois_table = ing_call.pois_before
                  /\ poi_texts_table = ing_call.texts_before)

\* C30: after any sequence of ingest_data(clear_existing=False) runs, over
\* any pages returned by the API, no two rows of pois share a non-null
\* external_id, every inserted POI has exactly three poi_texts rows (en, ar,
\* sq), and a run over records whose ids are all already stored inserts no
\* row.
C30_IngestionDoesNotDuplicate ==
    ing_call.op = "ingest_data" =>
        /\ UniqueExternalIds
        /\ \A i \in DOMAIN pois_table :
              /\ Cardinality(TextsOf(pois_table[i].id)) = 3
              /\ {poi_texts_table[k].lang : k \in TextsOf(pois_table[i].id)} = Range(Langs)
        /\ StoredIdsInsertNothing

=============================================================================
